---------------------------- MODULE Spec2Model ----------------------------
(***************************************************************************)
(* A model of the typeface playground: the animation engine                *)
(* (types/animation.ts), the GIF export pipeline (utils/gifExporter.ts),   *)
(* the page that drives both (app/page.tsx, hooks/useAnimationEngine.ts)   *)
(* and the effect pass over a scene (utils/effectProcessors.ts).           *)
(*                                                                         *)
(* JavaScript numbers are modelled as exact fractions <<n, d>> with d >= 0 *)
(* in lowest terms; <<1, 0>> is Infinity, <<-1, 0>> is -Infinity and       *)
(* <<0, 0>> is NaN.  Negative zero is not told apart from zero (they are   *)
(* === in the source as well).                                             *)
(***************************************************************************)
EXTENDS Integers, Sequences, FiniteSets, TLC

VARIABLES
    animCfg,        \* SpecAnim: the AnimationConfig handed to getAnimatedValue
    animTime,       \* SpecAnim: the elapsed time handed to getAnimatedValue
    animValue,      \* SpecAnim: the number it returned
    animPc,         \* SpecAnim: "input" before the call, "done" after it
    loaded,         \* Home: the mount effect has read the stored settings
    font,           \* FontRenderer: the loaded font, or "null"
    effects,        \* Home state: the Effect[] array it holds (a reference)
    effectsHeap,    \* the Effect[] arrays alive, by reference
    animations,     \* Home state: the EffectAnimations object it holds (a reference)
    animationsHeap, \* the EffectAnimations objects alive, by reference
    presets,        \* Home state: the stored presets
    showGifDialog,  \* Home state
    gifExporting,   \* Home state
    gifProgress,    \* Home state
    runs,           \* the exportGif calls in flight, oldest first
    lastRun,        \* the exportGif call that ended last, and how handleGifExport settled it
    lastAlert,      \* the text of the last alert() shown
    exportsLeft,    \* how many more exports the user requests
    editsLeft,      \* how many more edits the user makes
    faultsLeft,     \* how many more times rendering, rasterizing or encoding fails
    scene,          \* SpecScene: the SVG that applyEffects works on
    sceneAtCall,    \* SpecScene: the SVG as it was handed to applyEffects
    fxEffects,      \* SpecScene: the Effect[] handed to applyEffects
    fxQueue,        \* SpecScene: the enabledEffects its loop has yet to apply
    fxApplied,      \* SpecScene: the ids of the effects applied so far, in order
    fxPc,           \* SpecScene: "call", "loop", "done"; "idle" elsewhere
    now,            \* useAnimationEngine: Date.now() / 1000, the wall clock
    startTimeRef,   \* useAnimationEngine: startTimeRef.current
    animationFrameRef, \* useAnimationEngine: an animation frame is requested
    isRunning,      \* useAnimationEngine state
    activatedAt,    \* the clock when the preview last went from idle to active
    lastElapsed,    \* SpecPreview: the elapsed time the last frame saw
    lastTickAt,     \* SpecPreview: the clock at the last frame, -1 before it
    pathText,       \* SpecPath: the d attribute handed to parsePath
    pathN,          \* SpecPath: the subdivisions handed to subdividePath
    pathCommands,   \* SpecPath: what parsePath returned
    pathSubdivided, \* SpecPath: what subdividePath returned
    pathSerialized, \* SpecPath: what serializePath returned
    pathReparsed,   \* SpecPath: what parsePath returned for the serialized text
    pathPc,         \* SpecPath: the calls made so far; "idle" elsewhere
    storage,        \* SpecStartup: what localStorage holds under effects, animations, presets
    storedAtMount,  \* SpecStartup: what localStorage held when Home was mounted
    mountPc,        \* SpecStartup: how far the first commit of Home has come; "idle" elsewhere
    queued,         \* SpecStartup: the state updates the mount effect has queued
    fontPath,       \* Home state selectedFont, the fontPath prop of FontRenderer
    fontLoads,      \* the opentype.load calls made so far, pending or settled
    fontLoading,    \* FontRenderer state loading
    fontError,      \* FontRenderer state error, "" for null
    rendered,       \* the font of the scene the svg element of FontRenderer holds, "none" without one
    previewPreset,  \* Home state: the preset hovered over, <<>> for null
    presetLog,      \* SpecPresets: what was live at each savePreset, and the presets loaded
    renderArgs      \* SpecRender: the text, wireframeMode and effects of the last renderSVGFrame call

animVars == <<animCfg, animTime, animValue, animPc>>

pageVars ==
    <<loaded, font, effects, effectsHeap, animations, animationsHeap, presets,
      showGifDialog, gifExporting, gifProgress, runs, lastRun, lastAlert,
      exportsLeft, editsLeft, faultsLeft>>

sceneVars == <<scene, sceneAtCall, fxEffects, fxQueue, fxApplied, fxPc>>

engineVars == <<startTimeRef, animationFrameRef, isRunning, activatedAt>>

previewVars == <<now, engineVars, lastElapsed, lastTickAt>>

pathVars ==
    <<pathText, pathN, pathCommands, pathSubdivided, pathSerialized, pathReparsed,
      pathPc>>

startupVars == <<storage, storedAtMount, mountPc, queued>>

fontVars == <<fontPath, fontLoads, fontLoading, fontError, rendered>>

shellVars == <<startupVars, fontVars, previewPreset, presetLog, renderArgs>>

vars == <<animVars, pageVars, sceneVars, previewVars, pathVars, shellVars>>

---------------------------------------------------------------------------
(* JavaScript number arithmetic on fractions                               *)

Abs(x) == IF x < 0 THEN -x ELSE x

Max(a, b) == IF a < b THEN b ELSE a

Sign(x) == IF x < 0 THEN -1 ELSE IF x > 0 THEN 1 ELSE 0

RECURSIVE GCD(_, _)
GCD(a, b) == IF b = 0 THEN a ELSE GCD(b, a % b)

\* The fraction n/d (d >= 0) in lowest terms; n/0 is an infinity or NaN.
Norm(n, d) ==
    IF d = 0 THEN <<Sign(n), 0>>
    ELSE IF n = 0 THEN <<0, 1>>
    ELSE LET g == GCD(Abs(n), d) IN <<n \div g, d \div g>>

Rat(n, d) == IF d < 0 THEN Norm(-n, -d) ELSE Norm(n, d)

Num(n) == <<n, 1>>

Zero == Num(0)
One == Num(1)
Two == Num(2)
Half == Rat(1, 2)
Infinity == <<1, 0>>
NaN == <<0, 0>>

IsNaN(a) == a = NaN
IsFinite(a) == a[2] # 0

\* a + b
RAdd(a, b) ==
    IF IsNaN(a) \/ IsNaN(b) THEN NaN
    ELSE IF ~IsFinite(a) /\ ~IsFinite(b) THEN (IF a = b THEN a ELSE NaN)
    ELSE IF ~IsFinite(a) THEN a
    ELSE IF ~IsFinite(b) THEN b
    ELSE Norm(a[1] * b[2] + b[1] * a[2], a[2] * b[2])

RNeg(a) == <<-a[1], a[2]>>

\* a - b
RSub(a, b) == RAdd(a, RNeg(b))

\* a * b (Infinity * 0 is NaN)
RMul(a, b) ==
    IF a[1] = 0 \/ b[1] = 0 \/ a[2] = 0 \/ b[2] = 0
    THEN Norm(a[1] * b[1], a[2] * b[2])
    ELSE LET g == GCD(Abs(a[1]), b[2])
             h == GCD(Abs(b[1]), a[2])
         IN  Norm((a[1] \div g) * (b[1] \div h), (a[2] \div h) * (b[2] \div g))

\* a / b (x / 0 is an infinity, 0 / 0 is NaN, x / Infinity is 0)
RDiv(a, b) ==
    IF IsNaN(a) \/ IsNaN(b) THEN NaN
    ELSE IF b[1] < 0 THEN Norm(-(a[1] * b[2]), a[2] * (-b[1]))
    ELSE Norm(a[1] * b[2], a[2] * b[1])

\* a < b (false when either is NaN)
RLt(a, b) ==
    /\ ~IsNaN(a)
    /\ ~IsNaN(b)
    /\ a # b
    /\ IF IsFinite(a) /\ IsFinite(b) THEN a[1] * b[2] < b[1] * a[2]
       ELSE IF ~IsFinite(a) THEN a[1] < 0
       ELSE b[1] > 0

RLe(a, b) == ~IsNaN(a) /\ ~IsNaN(b) /\ (a = b \/ RLt(a, b))

\* Math.trunc of a finite fraction, as an integer
Trunc(a) == Sign(a[1]) * (Abs(a[1]) \div a[2])

\* Math.floor of a finite fraction, as an integer
Floor(a) == a[1] \div a[2]

\* Math.round: the nearest integer, halves going up
MathRound(a) == IF IsFinite(a) THEN Num(Floor(RAdd(a, Half))) ELSE a

\* Math.max, Math.min (NaN if either is NaN)
MathMax(a, b) == IF IsNaN(a) \/ IsNaN(b) THEN NaN ELSE IF RLt(a, b) THEN b ELSE a

MathMin(a, b) == IF IsNaN(a) \/ IsNaN(b) THEN NaN ELSE IF RLt(b, a) THEN b ELSE a

\* a % b: the remainder of the truncated division, with the dividend's sign;
\* x % Infinity is x, x % 0 and Infinity % x are NaN.
RMod(a, b) ==
    IF IsNaN(a) \/ IsNaN(b) \/ ~IsFinite(a) \/ b = Zero THEN NaN
    ELSE IF ~IsFinite(b) THEN a
    ELSE RSub(a, RMul(Num(Trunc(RDiv(a, b))), b))

---------------------------------------------------------------------------
(* types/animation.ts                                                      *)

EasingFunction ==
    {"linear", "ease", "ease-in", "ease-out", "ease-in-out", "bounce", "elastic"}

\* ease and ease-in-out share one formula
easeInOut(t) ==
    IF RLt(t, Half) THEN RMul(Two, RMul(t, t))
    ELSE RAdd(Num(-1), RMul(RSub(Num(4), RMul(Two, t)), t))

\* bounce: n1 = 7.5625, d1 = 2.75; each later branch first moves t back
bounceOut(t) ==
    LET n1 == Rat(121, 16)
        d1 == Rat(11, 4)
        seg(shift, add) ==
            LET t2 == RSub(t, RDiv(shift, d1))
            IN  RAdd(RMul(RMul(n1, t2), t2), add)
    IN  IF RLt(t, RDiv(One, d1)) THEN RMul(RMul(n1, t), t)
        ELSE IF RLt(t, RDiv(Two, d1)) THEN seg(Rat(3, 2), Rat(3, 4))
        ELSE IF RLt(t, RDiv(Rat(5, 2), d1)) THEN seg(Rat(9, 4), Rat(15, 16))
        ELSE seg(Rat(21, 8), Rat(63, 64))

\* elastic: 2^(-10t) * sin((10t - 0.75) * 2pi/3) + 1 away from t = 0 and t = 1.
\* The value is exact at the multiples of 1/2 and given to four decimals at
\* the odd multiples of 1/4; the model evaluates it nowhere else.
elasticOut(t) ==
    IF t = Zero THEN Zero
    ELSE IF t = One THEN One
    ELSE CASE t = Rat(-3, 2) -> Num(-32767)
           [] t = Rat(-5, 4) -> Rat(-28953094, 10000)
           [] t = Num(-1)    -> Num(513)
           [] t = Rat(-3, 4) -> Rat(1820193, 10000)
           [] t = Rat(-1, 2) -> Num(17)
           [] t = Rat(-1, 4) -> Rat(-18284, 10000)
           [] t = Rat(1, 4)  -> Rat(9116, 10000)
           [] t = Rat(1, 2)  -> Rat(65, 64)
           [] t = Rat(3, 4)  -> Rat(10055, 10000)

easingFunctions(easing, t) ==
    CASE easing = "linear"      -> t
      [] easing = "ease"        -> easeInOut(t)
      [] easing = "ease-in"     -> RMul(t, t)
      [] easing = "ease-out"    -> RMul(t, RSub(Two, t))
      [] easing = "ease-in-out" -> easeInOut(t)
      [] easing = "bounce"      -> bounceOut(t)
      [] easing = "elastic"     -> elasticOut(t)

\* A fold that never reflects the second half of the cycle.
PingPongFoldNoReflect(progress) == RMul(progress, Two)

\* The ping-pong fold: 0 -> 1 over the first half of the cycle, 1 -> 0 over
\* the second.
PingPongFold(progress) ==
    IF RLt(progress, Half) THEN RMul(progress, Two)
    ELSE RMul(RSub(One, progress), Two)

\* An interpolation that does not look at enabled.
getAnimatedValueAlways(config, time) ==
    LET cycleTime == RDiv(One, config.speed)
        raw == RDiv(RMod(time, cycleTime), cycleTime)
        progress == IF config.pingPong THEN PingPongFold(raw) ELSE raw
        easedProgress == easingFunctions(config.easing, progress)
    IN  RAdd(config.min, RMul(RSub(config.max, config.min), easedProgress))

getAnimatedValue(config, time) ==
    IF ~config.enabled THEN config.min
    ELSE LET cycleTime == RDiv(One, config.speed)
             raw == RDiv(RMod(time, cycleTime), cycleTime)
             progress == IF config.pingPong THEN PingPongFold(raw) ELSE raw
             easedProgress == easingFunctions(config.easing, progress)
         IN  RAdd(config.min, RMul(RSub(config.max, config.min), easedProgress))

DEFAULT_ANIMATION_CONFIG ==
    [enabled |-> FALSE, min |-> Num(0), max |-> Num(100), speed |-> One,
     easing |-> "ease-in-out", pingPong |-> TRUE]

\* Elapsed times are the quarters of a second 0, 1/4, ..., MaxTick/4.
MaxTick == 5

AnimTimes == {Rat(k, 4) : k \in 0..MaxTick}

---------------------------------------------------------------------------
(* types/effects.ts                                                        *)

EffectType == {"multiply", "distortion", "outline", "subdivide", "color"}

DEFAULT_PARAMETERS(type) ==
    CASE type = "multiply" ->
             [count |-> Num(5), offsetX |-> Num(10), offsetY |-> Num(10),
              rotation |-> Zero, opacityDecay |-> Rat(1, 5)]
      [] type = "distortion" ->
             [waveType |-> "sin", amplitude |-> Num(10), frequency |-> One,
              phase |-> Zero]
      [] type = "outline" -> [thickness |-> Num(8), style |-> "round"]
      [] type = "subdivide" -> [subdivisions |-> Num(10)]
      [] type = "color" ->
             [hue |-> Zero, saturation |-> Num(100), lightness |-> Num(50)]

\* PARAMETER_RANGES[type]: min, max and step of every numeric parameter.
Range(min, max, step) == [min |-> min, max |-> max, step |-> step]

PARAMETER_RANGES(type) ==
    CASE type = "multiply" ->
             [count |-> Range(One, Num(20), One),
              offsetX |-> Range(Num(-100), Num(100), One),
              offsetY |-> Range(Num(-100), Num(100), One),
              rotation |-> Range(Zero, Num(360), One),
              opacityDecay |-> Range(Zero, One, Rat(1, 100))]
      [] type = "distortion" ->
             [amplitude |-> Range(Zero, Num(50), Half),
              frequency |-> Range(Rat(1, 10), Num(5), Rat(1, 10)),
              phase |-> Range(Zero, Num(360), One)]
      [] type = "outline" -> [thickness |-> Range(Zero, Num(50), Half)]
      [] type = "subdivide" -> [subdivisions |-> Range(One, Num(20), One)]
      [] type = "color" ->
             [hue |-> Range(Zero, Num(360), One),
              saturation |-> Range(Zero, Num(100), One),
              lightness |-> Range(Zero, Num(100), One)]

\* createEffect(type); id stands for the crypto.randomUUID() it draws.
createEffect(type, id) ==
    [id |-> id, type |-> type, enabled |-> TRUE,
     parameters |-> DEFAULT_PARAMETERS(type)]

---------------------------------------------------------------------------
(* JavaScript objects as maps from keys to values                          *)

EmptyMap == [k \in {} |-> k]

\* {...m, [key]: value}
MapPut(m, key, value) ==
    [k \in DOMAIN m \cup {key} |-> IF k = key THEN value ELSE m[k]]

\* The smallest reference not in held.
FreshRef(held) ==
    CHOOSE r \in 1..(Cardinality(held) + 1) :
        /\ r \notin held
        /\ \A q \in 1..(Cardinality(held) + 1) : q \notin held => r <= q

Last(s) == s[Len(s)]

\* s without its k-th element
RemoveAt(s, k) == SubSeq(s, 1, k - 1) \o SubSeq(s, k + 1, Len(s))

---------------------------------------------------------------------------
(* utils/pathUtils.ts                                                      *)
(*                                                                         *)
(* The text of a d attribute is a sequence of tokens: a command letter     *)
(* [c |-> "M"], a number [v |-> q] holding what Number() makes of its      *)
(* digits, or a run of other characters [junk |-> "N"]; a PathCommand is a *)
(* record [type, values].                                                  *)

Letter(c) == [c |-> c]

Number(q) == [v |-> q]

Junk(chars) == [junk |-> chars]

IsLetter(token) == DOMAIN token = {"c"}

IsJunk(token) == DOMAIN token = {"junk"}

toUpperCase(c) ==
    CASE c \in {"M", "m"} -> "M"
      [] c \in {"L", "l"} -> "L"
      [] c \in {"H", "h"} -> "H"
      [] c \in {"V", "v"} -> "V"
      [] c \in {"C", "c"} -> "C"
      [] c \in {"S", "s"} -> "S"
      [] c \in {"Q", "q"} -> "Q"
      [] c \in {"T", "t"} -> "T"
      [] c \in {"A", "a"} -> "A"
      [] c \in {"Z", "z"} -> "Z"

IsLowerCase(c) == c \in {"m", "l", "h", "v", "c", "s", "q", "t", "a", "z"}

PathCommand(type, values) == [type |-> type, values |-> values]

\* The regex loop of parsePath from token k on: a letter opens a command and
\* the numbers up to the next letter are its values; numbers ahead of the
\* first letter, and characters that are neither, match nothing.
RECURSIVE ParseFrom(_, _, _)
ParseFrom(d, k, commands) ==
    IF k > Len(d) THEN commands
    ELSE IF IsLetter(d[k])
    THEN ParseFrom(d, k + 1, Append(commands, PathCommand(d[k].c, <<>>)))
    ELSE IF IsJunk(d[k]) \/ commands = <<>> THEN ParseFrom(d, k + 1, commands)
    ELSE ParseFrom(d, k + 1,
                   [commands EXCEPT ![Len(commands)].values = Append(@, d[k].v)])

parsePath(d) == ParseFrom(d, 1, <<>>)

\* Math.round(v * 100) / 100
RoundTo2(v) == RDiv(MathRound(RMul(v, Num(100))), Num(100))

\* String(v) as join writes it: the digits of a finite number; "Infinity",
\* "-Infinity" and "NaN" are no digits, and hold the command letters t and a.
NumberText(v) ==
    IF IsFinite(v) THEN <<Number(v)>>
    ELSE IF IsNaN(v) THEN <<Junk("N"), Letter("a"), Junk("N")>>
    ELSE IF v = Infinity THEN <<Junk("Infini"), Letter("t"), Junk("y")>>
    ELSE <<Junk("-Infini"), Letter("t"), Junk("y")>>

\* roundedValues.join(' ')
RECURSIVE JoinRounded(_)
JoinRounded(values) ==
    IF values = <<>> THEN <<>>
    ELSE NumberText(RoundTo2(Head(values))) \o JoinRounded(Tail(values))

\* Each command as its letter followed by its values rounded to 2 decimals.
RECURSIVE serializePath(_)
serializePath(commands) ==
    IF commands = <<>> THEN <<>>
    ELSE LET cmd == Head(commands)
         IN  <<Letter(cmd.type)>> \o JoinRounded(cmd.values)
                 \o serializePath(Tail(commands))

getPointOnLine(x1, y1, x2, y2, t) ==
    <<RAdd(x1, RMul(RSub(x2, x1), t)), RAdd(y1, RMul(RSub(y2, y1), t))>>

\* Math.sqrt, where the root is a fraction.
IntSqrt(n) == CHOOSE r \in 0..n : r * r = n

Sqrt(q) == Rat(IntSqrt(q[1]), IntSqrt(q[2]))

getTangentOnLine(x1, y1, x2, y2) ==
    LET dx == RSub(x2, x1)
        dy == RSub(y2, y1)
        length == Sqrt(RAdd(RMul(dx, dx), RMul(dy, dy)))
    IN  IF RLt(Zero, length) THEN <<RDiv(dx, length), RDiv(dy, length)>>
        ELSE <<One, Zero>>

\* One coordinate of a cubic Bezier curve at t.
CubicAt(p0, p1, p2, p3, t) ==
    LET mt == RSub(One, t)
        mt2 == RMul(mt, mt)
        mt3 == RMul(mt2, mt)
        t2 == RMul(t, t)
        t3 == RMul(t2, t)
    IN  RAdd(RAdd(RMul(mt3, p0), RMul(RMul(RMul(Num(3), mt2), t), p1)),
             RAdd(RMul(RMul(RMul(Num(3), mt), t2), p2), RMul(t3, p3)))

getPointOnCubicBezier(x0, y0, x1, y1, x2, y2, x3, y3, t) ==
    <<CubicAt(x0, x1, x2, x3, t), CubicAt(y0, y1, y2, y3, t)>>

\* One coordinate of a quadratic Bezier curve at t.
QuadraticAt(p0, p1, p2, t) ==
    LET mt == RSub(One, t)
        mt2 == RMul(mt, mt)
        t2 == RMul(t, t)
    IN  RAdd(RAdd(RMul(mt2, p0), RMul(RMul(RMul(Two, mt), t), p1)), RMul(t2, p2))

getPointOnQuadraticBezier(x0, y0, x1, y1, x2, y2, t) ==
    <<QuadraticAt(x0, x1, x2, t), QuadraticAt(y0, y1, y2, t)>>

\* The tangent turned 90 degrees counterclockwise.
getNormal(tangentX, tangentY) == <<RNeg(tangentY), tangentX>>

LineTo(point) == PathCommand("L", point)

\* A loop that stops one short: for (i = 1; i < subdivisions; i++).
SubdivisionStepsOpen(subdivisions) ==
    IF RLt(One, subdivisions) THEN -Floor(RNeg(subdivisions)) - 1 ELSE 0

\* The values of i the loop for (i = 1; i <= subdivisions; i++) takes.
SubdivisionSteps(subdivisions) ==
    IF RLe(One, subdivisions) THEN Floor(subdivisions) ELSE 0

\* The loop of subdividePath from command k on, the pen at current, the
\* subpath begun at start.
RECURSIVE SubdivideFrom(_, _, _, _, _)
SubdivideFrom(commands, k, current, start, subdivisions) ==
    IF k > Len(commands) THEN <<>>
    ELSE
      LET cmd == commands[k]
          type == toUpperCase(cmd.type)
          values == cmd.values
          isRelative == IsLowerCase(cmd.type) /\ cmd.type # "z"
          X(j) == IF isRelative THEN RAdd(current[1], values[j]) ELSE values[j]
          Y(j) == IF isRelative THEN RAdd(current[2], values[j]) ELSE values[j]
          n == SubdivisionSteps(subdivisions)
          T(i) == RDiv(Num(i), subdivisions)
      IN  CASE type = "M" ->
                  <<PathCommand("M", <<X(1), Y(2)>>)>>
                      \o SubdivideFrom(commands, k + 1, <<X(1), Y(2)>>,
                                       <<X(1), Y(2)>>, subdivisions)
            [] type = "L" ->
                  [i \in 1..n |->
                      LineTo(getPointOnLine(current[1], current[2], X(1), Y(2), T(i)))]
                      \o SubdivideFrom(commands, k + 1, <<X(1), Y(2)>>, start,
                                       subdivisions)
            [] type = "C" ->
                  [i \in 1..n |->
                      LineTo(getPointOnCubicBezier(current[1], current[2], X(1), Y(2),
                                                   X(3), Y(4), X(5), Y(6), T(i)))]
                      \o SubdivideFrom(commands, k + 1, <<X(5), Y(6)>>, start,
                                       subdivisions)
            [] type = "Q" ->
                  [i \in 1..n |->
                      LineTo(getPointOnQuadraticBezier(current[1], current[2], X(1),
                                                       Y(2), X(3), Y(4), T(i)))]
                      \o SubdivideFrom(commands, k + 1, <<X(3), Y(4)>>, start,
                                       subdivisions)
            [] type = "Z" ->
                  <<PathCommand("Z", <<>>)>>
                      \o SubdivideFrom(commands, k + 1, start, start, subdivisions)
            [] OTHER ->
                  <<cmd>> \o SubdivideFrom(commands, k + 1, current, start, subdivisions)

subdividePath(commands, subdivisions) ==
    SubdivideFrom(commands, 1, <<Zero, Zero>>, <<Zero, Zero>>, subdivisions)

---------------------------------------------------------------------------
(* utils/effectProcessors.ts                                               *)
(*                                                                         *)
(* The scene is the line of character groups of the SVG, in document       *)
(* order.  A group is [char, charIndex, transform, opacity, duplicate,     *)
(* paths], a path [d, fill, stroke, strokeWidth, linejoin, linecap,        *)
(* paintOrder, outline].  An attribute that is not set is <<>> where its   *)
(* value is a number, "" where it is a word, Paint("absent") where it is a *)
(* colour, NoTransform for the transform.                                  *)

NoTransform == [translate |-> <<>>, rotate |-> <<>>]

Paint(kind) == [kind |-> kind, hsl |-> <<>>]

\* `hsl(${hue}, ${saturation}%, ${lightness}%)`
Hsl(hue, saturation, lightness) ==
    [kind |-> "hsl", hsl |-> <<hue, saturation, lightness>>]

\* Math.pow(a, i) for i = 0, 1, 2, ...
RECURSIVE Pow(_, _)
Pow(a, i) == IF i = 0 THEN One ELSE RMul(a, Pow(a, i - 1))

\* The concatenation of a sequence of sequences.
RECURSIVE Flatten(_)
Flatten(ss) == IF ss = <<>> THEN <<>> ELSE Head(ss) \o Flatten(Tail(ss))

\* The end points of the commands of a path of absolute moves and lines.
PathPoints(d) ==
    LET commands == parsePath(d)
    IN  {commands[k].values : k \in {j \in DOMAIN commands : commands[j].type \in {"M", "L"}}}

MinOf(S) == CHOOSE a \in S : \A b \in S : RLe(a, b)

MaxOf(S) == CHOOSE a \in S : \A b \in S : RLe(b, a)

\* getBBox() of a character group: the box around the points of its paths.
getBBox(group) ==
    LET points == UNION {PathPoints(group.paths[k].d) : k \in DOMAIN group.paths}
        xs == {p[1] : p \in points}
        ys == {p[2] : p \in points}
    IN  IF points = {} THEN [x |-> Zero, y |-> Zero, width |-> Zero, height |-> Zero]
        ELSE [x |-> MinOf(xs), y |-> MinOf(ys),
              width |-> RSub(MaxOf(xs), MinOf(xs)),
              height |-> RSub(MaxOf(ys), MinOf(ys))]

\* The values of i the loop for (i = 1; i < count; i++) takes.
CloneSteps(count) == IF RLt(One, count) THEN -Floor(RNeg(count)) - 1 ELSE 0

\* Every character group, duplicates of earlier passes included, gets its
\* clones 1 .. count - 1 put in front of it, each moved, turned and faded
\* by its number.
applyMultiplyEffect(svg, effect) ==
    LET p == effect.parameters
        Clone(group, i) ==
            LET tx == RMul(p.offsetX, Num(i))
                ty == RMul(p.offsetY, Num(i))
                rot == RMul(p.rotation, Num(i))
                opacity == Pow(RSub(One, p.opacityDecay), i)
                bbox == getBBox(group)
                cx == RAdd(bbox.x, RDiv(bbox.width, Two))
                cy == RAdd(bbox.y, RDiv(bbox.height, Two))
                translate == IF tx # Zero \/ ty # Zero THEN <<tx, ty>> ELSE <<>>
                rotate == IF rot # Zero THEN <<rot, cx, cy>> ELSE <<>>
            IN  [group EXCEPT
                    !.transform = IF translate # <<>> \/ rotate # <<>>
                                  THEN [translate |-> translate, rotate |-> rotate]
                                  ELSE @,
                    !.opacity = IF RLt(opacity, One) THEN <<opacity>> ELSE @,
                    !.duplicate = TRUE]
    IN  Flatten([k \in DOMAIN svg |->
                    [i \in 1..CloneSteps(p.count) |-> Clone(svg[k], i)] \o <<svg[k]>>])

\* sin(1) .. sin(128) in millionths.
SinTable ==
    <<
      841471, 909297, 141120, -756802, -958924, -279415, 656987, 989358,
      412118, -544021, -999990, -536573, 420167, 990607, 650288, -287903,
      -961397, -750987, 149877, 912945, 836656, -8851, -846220, -905578,
      -132352, 762558, 956376, 270906, -663634, -988032, -404038, 551427,
      999912, 529083, -428183, -991779, -643538, 296369, 963795, 745113,
      -158623, -916522, -831775, 17702, 850904, 901788, 123573, -768255,
      -953753, -262375, 670229, 986628, 395925, -558789, -999755, -521551,
      436165, 992873, 636738, -304811, -966118, -739181, 167356, 920026,
      826829, -26551, -855520, -897928, -114785, 773891, 951055, 253823,
      -676772, -985146, -387782, 566108, 999520, 513978, -444113, -993889,
      -629888, 313229, 968364, 733190, -176076, -923458, -821818, 35398,
      860069, 893997, 105988, -779466, -948282, -245252, 683262, 983588,
      379608, -573382, -999207, -506366, 452026, 994827, 622989, -321622,
      -970535, -727143, 184782, 926819, 816743, -44243, -864551, -889996,
      -97182, 784980, 945435, 236661, -689698, -981952, -371404, 580611,
      998815, 498713, -459903, -995687, -616040, 329991, 972630, 721038
    >>

\* k / (2 * Math.PI) for k = 1 .. 128 in millionths.
OverTwoPiTable ==
    <<
      159155, 318310, 477465, 636620, 795775, 954930, 1114085, 1273240,
      1432394, 1591549, 1750704, 1909859, 2069014, 2228169, 2387324, 2546479,
      2705634, 2864789, 3023944, 3183099, 3342254, 3501409, 3660564, 3819719,
      3978874, 4138029, 4297183, 4456338, 4615493, 4774648, 4933803, 5092958,
      5252113, 5411268, 5570423, 5729578, 5888733, 6047888, 6207043, 6366198,
      6525353, 6684508, 6843663, 7002817, 7161972, 7321127, 7480282, 7639437,
      7798592, 7957747, 8116902, 8276057, 8435212, 8594367, 8753522, 8912677,
      9071832, 9230987, 9390142, 9549297, 9708452, 9867606, 10026761, 10185916,
      10345071, 10504226, 10663381, 10822536, 10981691, 11140846, 11300001, 11459156,
      11618311, 11777466, 11936621, 12095776, 12254931, 12414086, 12573241, 12732395,
      12891550, 13050705, 13209860, 13369015, 13528170, 13687325, 13846480, 14005635,
      14164790, 14323945, 14483100, 14642255, 14801410, 14960565, 15119720, 15278875,
      15438029, 15597184, 15756339, 15915494, 16074649, 16233804, 16392959, 16552114,
      16711269, 16870424, 17029579, 17188734, 17347889, 17507044, 17666199, 17825354,
      17984509, 18143664, 18302818, 18461973, 18621128, 18780283, 18939438, 19098593,
      19257748, 19416903, 19576058, 19735213, 19894368, 20053523, 20212678, 20371833
    >>

\* Math.PI, to six decimals; the model adds it to whole numbers only.
PI == Rat(3141593, 1000000)

IsWhole(x) == x[2] = 1 /\ x[1] \in DOMAIN SinTable

\* The whole number x lies above pi.
AbovePi(x) == (x[1] - PI[1]) \div PI[2]

IsWholePlusPi(x) ==
    x[2] = PI[2] /\ (x[1] - PI[1]) % PI[2] = 0 /\ AbovePi(x) \in DOMAIN SinTable

\* Math.sin, at the whole numbers of the table and at those plus pi.
sinWave(x) ==
    CASE x = Zero -> Zero
      [] IsWhole(x) -> Rat(SinTable[x[1]], 1000000)
      [] x = PI -> Zero
      [] IsWholePlusPi(x) -> Rat(-SinTable[AbovePi(x)], 1000000)

\* x / (2 * Math.PI), at the same numbers.
OverTwoPi(x) ==
    CASE x = Zero -> Zero
      [] IsWhole(x) -> Rat(OverTwoPiTable[x[1]], 1000000)
      [] x = PI -> Half
      [] IsWholePlusPi(x) -> RAdd(Rat(OverTwoPiTable[AbovePi(x)], 1000000), Half)

\* degrees * Math.PI / 180, for no turn and for half a turn.
ToRadians(degrees) ==
    CASE degrees = Zero -> Zero
      [] degrees = Num(180) -> PI

sawWave(x) ==
    LET normalized == RMod(OverTwoPi(x), One)
    IN  RSub(RMul(normalized, Two), One)

triangleWave(x) ==
    LET normalized == RMod(OverTwoPi(x), One)
    IN  IF RLt(normalized, Half) THEN RSub(RMul(normalized, Num(4)), One)
        ELSE RSub(One, RMul(RSub(normalized, Half), Num(4)))

waveFn(waveType, x) ==
    IF waveType = "sin" THEN sinWave(x)
    ELSE IF waveType = "saw" THEN sawWave(x)
    ELSE triangleWave(x)

\* A displacement that adds the amplitude to the wave.
DisplacementAdded(amplitude, wave) == RAdd(amplitude, wave)

\* amplitude * waveFn(waveInput)
Displacement(amplitude, wave) == RMul(amplitude, wave)

\* The loop of applyDistortionEffect over the subdivided path from command k
\* on: the end point of every line is moved along the normal of the line by
\* the wave at the length drawn so far.
RECURSIVE DistortFrom(_, _, _, _, _)
DistortFrom(subdivided, k, current, arcLength, p) ==
    IF k > Len(subdivided) THEN <<>>
    ELSE
      LET cmd == subdivided[k]
          type == toUpperCase(cmd.type)
          target == <<cmd.values[1], cmd.values[2]>>
          dx == RSub(target[1], current[1])
          dy == RSub(target[2], current[2])
          segmentLength == Sqrt(RAdd(RMul(dx, dx), RMul(dy, dy)))
          newLength == RAdd(arcLength, segmentLength)
          tangent == getTangentOnLine(current[1], current[2], target[1], target[2])
          normal == getNormal(tangent[1], tangent[2])
          waveInput == RAdd(RMul(p.frequency, newLength), ToRadians(p.phase))
          displacement == Displacement(p.amplitude, waveFn(p.waveType, waveInput))
          moved == <<RAdd(target[1], RMul(normal[1], displacement)),
                     RAdd(target[2], RMul(normal[2], displacement))>>
      IN  CASE type = "M" ->
                  <<cmd>> \o DistortFrom(subdivided, k + 1, target, Zero, p)
            [] type = "L" ->
                  <<LineTo(moved)>> \o DistortFrom(subdivided, k + 1, target, newLength, p)
            [] type = "Z" ->
                  <<PathCommand("Z", <<>>)>>
                      \o DistortFrom(subdivided, k + 1, current, arcLength, p)
            [] OTHER ->
                  <<cmd>> \o DistortFrom(subdivided, k + 1, current, arcLength, p)

applyDistortionEffect(svg, effect) ==
    LET Distorted(path) ==
            IF path.d = <<>> THEN path
            ELSE LET subdivided == subdividePath(parsePath(path.d), Num(8))
                 IN  [path EXCEPT !.d =
                         serializePath(DistortFrom(subdivided, 1, <<Zero, Zero>>, Zero,
                                                   effect.parameters))]
    IN  [k \in DOMAIN svg |->
            [svg[k] EXCEPT !.paths =
                [j \in DOMAIN svg[k].paths |-> Distorted(svg[k].paths[j])]]]

applyOutlineEffect(svg, effect) ==
    LET p == effect.parameters
        Outlined(path) ==
            [path EXCEPT
                !.stroke = Paint("currentColor"),
                !.strokeWidth = <<p.thickness>>,
                !.linejoin = IF p.style = "round" THEN "round" ELSE "miter",
                !.linecap = IF p.style = "round" THEN "round" ELSE "square",
                !.paintOrder = "stroke fill",
                !.outline = TRUE]
    IN  [k \in DOMAIN svg |->
            [svg[k] EXCEPT !.paths =
                [j \in DOMAIN svg[k].paths |-> Outlined(svg[k].paths[j])]]]

applySubdivideEffect(svg, effect) ==
    LET Subdivided(path) ==
            IF path.d = <<>> THEN path
            ELSE [path EXCEPT !.d =
                     serializePath(subdividePath(parsePath(path.d),
                                                 effect.parameters.subdivisions))]
    IN  [k \in DOMAIN svg |->
            [svg[k] EXCEPT !.paths =
                [j \in DOMAIN svg[k].paths |-> Subdivided(svg[k].paths[j])]]]

\* A Color effect that paints over every fill and stroke that is set.
applyColorEffectOverNone(svg, effect) ==
    LET p == effect.parameters
        color == Hsl(p.hue, p.saturation, p.lightness)
        Coloured(path) ==
            [path EXCEPT
                !.fill = IF @.kind # "absent" THEN color ELSE @,
                !.stroke = IF @.kind # "absent" THEN color ELSE @]
    IN  [k \in DOMAIN svg |->
            [svg[k] EXCEPT !.paths =
                [j \in DOMAIN svg[k].paths |-> Coloured(svg[k].paths[j])]]]

applyColorEffect(svg, effect) ==
    LET p == effect.parameters
        color == Hsl(p.hue, p.saturation, p.lightness)
        Coloured(path) ==
            [path EXCEPT
                !.fill = IF @.kind \notin {"absent", "none"} THEN color ELSE @,
                !.stroke = IF @.kind \notin {"absent", "none"} THEN color ELSE @]
    IN  [k \in DOMAIN svg |->
            [svg[k] EXCEPT !.paths =
                [j \in DOMAIN svg[k].paths |-> Coloured(svg[k].paths[j])]]]

\* Every effect of the list, enabled or not.
AllEffects(effectList) == effectList

\* effects.filter(e => e.enabled)
enabledEffects(effectList) == SelectSeq(effectList, LAMBDA e : e.enabled)

\* The switch of applyEffects on the type of one effect.
ApplyEffect(svg, effect) ==
    CASE effect.type = "multiply" -> applyMultiplyEffect(svg, effect)
      [] effect.type = "distortion" -> applyDistortionEffect(svg, effect)
      [] effect.type = "outline" -> applyOutlineEffect(svg, effect)
      [] effect.type = "subdivide" -> applySubdivideEffect(svg, effect)
      [] effect.type = "color" -> applyColorEffect(svg, effect)
      [] OTHER -> svg

---------------------------------------------------------------------------
(* utils/gifExporter.ts: the pure part                                     *)

\* A copy in which an animation drives its parameter enabled or not.
applyAnimatedValuesOfAll(effectList, animationMap, time) ==
    [k \in 1..Len(effectList) |->
        LET effect == effectList[k]
        IN  IF effect.id \notin DOMAIN animationMap THEN effect
            ELSE LET effectAnims == animationMap[effect.id]
                 IN  [effect EXCEPT !.parameters =
                        [p \in DOMAIN effect.parameters |->
                            IF p \in DOMAIN effectAnims
                            THEN getAnimatedValue([effectAnims[p] EXCEPT !.enabled = TRUE],
                                                  time)
                            ELSE effect.parameters[p]]]]

\* A copy of effects in which every parameter that has an enabled animation
\* of its own name holds the animated value at time.
applyAnimatedValues(effectList, animationMap, time) ==
    [k \in 1..Len(effectList) |->
        LET effect == effectList[k]
        IN  IF effect.id \notin DOMAIN animationMap THEN effect
            ELSE LET effectAnims == animationMap[effect.id]
                 IN  [effect EXCEPT !.parameters =
                        [p \in DOMAIN effect.parameters |->
                            IF p \in DOMAIN effectAnims /\ effectAnims[p].enabled
                            THEN getAnimatedValue(effectAnims[p], time)
                            ELSE effect.parameters[p]]]]

\* A frame count without the floor of one frame.
TotalFramesNoFloor(fps, duration) == MathRound(RMul(fps, duration))

\* The frames an export writes: at least one.
TotalFrames(fps, duration) == MathMax(One, MathRound(RMul(fps, duration)))

\* The display time of each frame, in milliseconds.
FrameDelay(fps) == MathRound(RDiv(Num(1000), fps))

\* A sample time one frame late.
FrameTimeLate(i, fps) == RDiv(Num(i + 1), fps)

\* The time at which frame i is sampled.
FrameTime(i, fps) == RDiv(Num(i), fps)

\* The progress as of before frame i.
ProgressBefore(i, totalFrames) == RDiv(Num(i), totalFrames)

\* The progress reported once frame i is written.
ProgressAfter(i, totalFrames) == RDiv(Num(i + 1), totalFrames)

\* A yield after the third frame of every three.
YieldsAfterThird(i) == i % 3 = 2

\* The loop yields to the browser after frames 0, 3, 6, ...
YieldsAfter(i) == i % 3 = 0

---------------------------------------------------------------------------
(* app/page.tsx: the state of Home and what it is drawn from               *)

\* Bounds of the page model: the edits a user makes, the length of the
\* effect list, the exports requested (with edits, and alone), the exports the model can hold in
\* flight, and the failures of rendering, rasterizing or encoding.
MaxEdits == 1
MaxEffects == 2
MaxPageExports == 1
MaxExports == 2
MaxRuns == 2
MaxFaults == 1

\* The ids crypto.randomUUID() draws from.
EffectIds == {"e1", "e2", "e3"}

\* The animation configurations the page model uses.
AnimOn ==
    [enabled |-> TRUE, min |-> Num(1), max |-> Num(3), speed |-> One,
     easing |-> "linear", pingPong |-> TRUE]

AnimOff == [AnimOn EXCEPT !.enabled = FALSE]

PageAnimConfigs == {AnimOn, AnimOff}

\* The parameter the page model edits and animates, per effect type.
PageParam(type) ==
    CASE type = "multiply" -> "count"
      [] type = "distortion" -> "amplitude"
      [] type = "outline" -> "thickness"
      [] type = "subdivide" -> "subdivisions"
      [] type = "color" -> "hue"

\* The elapsed times a live preview frame sees.
PreviewTimes == {Half}

\* The values a slider is moved to.
PageValues == {Num(2)}

\* The effect types the add menu is used for.
PageEffectTypes == {"color"}

\* What localStorage holds at startup: nothing, or a saved session.  The
\* animations of the saved preset also hold an entry for a parameter
\* subdivide does not have ("smoothing") and one for an effect that is not in
\* its list ("e0").
SavedPreset ==
    [id |-> "p1",
     effects |-> <<createEffect("subdivide", "e1")>>,
     animations |->
         MapPut(MapPut(EmptyMap, "e1",
                       MapPut(MapPut(EmptyMap, "subdivisions", AnimOn),
                              "smoothing", AnimOn)),
                "e0", MapPut(EmptyMap, "hue", AnimOn))]

StoredSettings ==
    {[effects |-> <<>>, animations |-> EmptyMap, presets |-> <<>>],
     [effects |-> <<createEffect("multiply", "e1"), createEffect("color", "e2")>>,
      animations |-> MapPut(EmptyMap, "e1", MapPut(EmptyMap, "count", AnimOn)),
      presets |-> <<SavedPreset>>]}

\* Export settings: fps and duration as the dialog hands them over.
Settings(fps, duration) == [fps |-> fps, duration |-> duration]

\* A number lost on its way through JSON.
JsonNumberLost(q) == <<>>

\* JSON.stringify of a number: a number that is not finite is written null.
JsonNull == <<>>

JsonNumber(q) == IF IsFinite(q) THEN q ELSE JsonNull

\* The parameters that hold words, not numbers.
WordParameters == {"waveType", "style"}

\* JSON.parse(JSON.stringify(effects))
JsonEffects(effectList) ==
    [k \in DOMAIN effectList |->
        [effectList[k] EXCEPT !.parameters =
            [p \in DOMAIN effectList[k].parameters |->
                IF p \in WordParameters THEN effectList[k].parameters[p]
                ELSE JsonNumber(effectList[k].parameters[p])]]]

\* JSON.parse(JSON.stringify(animations))
JsonAnimations(animationMap) ==
    [id \in DOMAIN animationMap |->
        [p \in DOMAIN animationMap[id] |->
            [animationMap[id][p] EXCEPT !.min = JsonNumber(@), !.max = JsonNumber(@),
                                        !.speed = JsonNumber(@)]]]

\* JSON.parse(JSON.stringify(presets))
JsonPresets(presetList) ==
    [k \in DOMAIN presetList |->
        [presetList[k] EXCEPT !.effects = JsonEffects(@),
                              !.animations = JsonAnimations(@)]]

liveEffects == effectsHeap[effects]

liveAnimations == animationsHeap[animations]

NoRun == [outcome |-> "none"]

InitPage ==
    /\ loaded = FALSE
    /\ font = "null"
    /\ effects = 1
    /\ effectsHeap = [r \in {1} |-> <<>>]
    /\ animations = 1
    /\ animationsHeap = [r \in {1} |-> EmptyMap]
    /\ presets = <<>>
    /\ showGifDialog = FALSE
    /\ gifExporting = FALSE
    /\ gifProgress = Zero
    /\ runs = <<>>
    /\ lastRun = NoRun
    /\ lastAlert = ""
    /\ now = Zero
    /\ startTimeRef = Zero
    /\ animationFrameRef = FALSE
    /\ isRunning = FALSE
    /\ activatedAt = Zero
    /\ lastElapsed = NaN
    /\ lastTickAt = Num(-1)
    /\ fontPath = "null"
    /\ fontLoads = <<>>
    /\ fontLoading = FALSE
    /\ fontError = ""
    /\ rendered = "none"
    /\ previewPreset = <<>>
    /\ presetLog = [saved |-> <<>>, loaded |-> <<>>]
    /\ renderArgs = <<>>

\* The references the exportGif calls in flight hold.
HeldEffects(rs) == {rs[k].effects : k \in DOMAIN rs}

HeldAnimations(rs) == {rs[k].animations : k \in DOMAIN rs}

\* setEffects writing into the array the state already holds.
SetEffectsInPlace(newList) ==
    /\ effects' = effects
    /\ effectsHeap' = [effectsHeap EXCEPT ![effects] = newList]

\* setEffects(newList): the state holds a new array; the old one stays as it
\* is for whoever still holds it.
SetEffects(newList) ==
    LET held == HeldEffects(runs)
        r == FreshRef(held)
    IN  /\ effects' = r
        /\ effectsHeap' =
              [x \in held \cup {r} |-> IF x = r THEN newList ELSE effectsHeap[x]]

\* setAnimations(newMap), likewise.
SetAnimations(newMap) ==
    LET held == HeldAnimations(runs)
        r == FreshRef(held)
    IN  /\ animations' = r
        /\ animationsHeap' =
              [x \in held \cup {r} |-> IF x = r THEN newMap ELSE animationsHeap[x]]

\* Arrays and maps nobody holds any more are gone.
DropUnheld(rs) ==
    /\ effectsHeap' = [x \in HeldEffects(rs) \cup {effects} |-> effectsHeap[x]]
    /\ animationsHeap' =
          [x \in HeldAnimations(rs) \cup {animations} |-> animationsHeap[x]]

exportVars ==
    <<showGifDialog, gifExporting, gifProgress, runs, lastRun, lastAlert,
      exportsLeft, faultsLeft>>

hasActiveAnimations(animationMap) ==
    \E id \in DOMAIN animationMap :
        \E p \in DOMAIN animationMap[id] : animationMap[id][p].enabled

\* An effect of the hook that leaves the start time where it was.
useAnimationEngineNoAnchor ==
    LET active == hasActiveAnimations(liveAnimations')
    IN  /\ animationFrameRef' = active
        /\ isRunning' = active
        /\ startTimeRef' = startTimeRef
        /\ activatedAt' = IF active /\ ~animationFrameRef THEN now ELSE activatedAt

\* The effect of useAnimationEngine, run after every render in which the
\* animations object is a new one: its cleanup cancels the frame requested,
\* and if an animation is enabled the start time is set to the clock and a
\* frame is requested.
useAnimationEngine ==
    LET active == hasActiveAnimations(liveAnimations')
    IN  /\ animationFrameRef' = active
        /\ isRunning' = active
        /\ startTimeRef' = IF active THEN now ELSE startTimeRef
        /\ activatedAt' = IF active /\ ~animationFrameRef THEN now ELSE activatedAt

\* The rest of the preview state, which no handler of the page writes.
previewRest == <<now, lastElapsed, lastTickAt>>

\* The mount effect: read the stored settings (the UI is not shown before).
MountLoad ==
    /\ ~loaded
    /\ \E store \in StoredSettings :
          /\ SetEffects(store.effects)
          /\ SetAnimations(store.animations)
          /\ presets' = store.presets
    /\ loaded' = TRUE
    /\ useAnimationEngine
    /\ UNCHANGED <<shellVars, animVars, sceneVars, previewRest, pathVars, font, exportVars,
                   editsLeft>>

\* FontRenderer has loaded the selected font.
FontLoaded ==
    /\ loaded
    /\ font = "null"
    /\ font' = "font"
    /\ UNCHANGED <<shellVars, animVars, sceneVars, previewVars, pathVars, loaded, effects, effectsHeap, animations,
                   animationsHeap, presets, exportVars, editsLeft>>

EffectEdit(newList) ==
    /\ loaded
    /\ editsLeft > 0
    /\ editsLeft' = editsLeft - 1
    /\ SetEffects(newList)
    /\ UNCHANGED <<shellVars, animVars, sceneVars, previewVars, pathVars, loaded, font, animations, animationsHeap, presets,
                   exportVars>>

UsedIds ==
    {liveEffects[k].id : k \in DOMAIN liveEffects}
        \cup DOMAIN liveAnimations
        \cup UNION {{presets[p].effects[k].id : k \in DOMAIN presets[p].effects} :
                        p \in DOMAIN presets}
        \cup UNION {DOMAIN presets[p].animations : p \in DOMAIN presets}
        \cup UNION {{effectsHeap[r][k].id : k \in DOMAIN effectsHeap[r]} :
                        r \in DOMAIN effectsHeap}
        \cup UNION {DOMAIN animationsHeap[r] : r \in DOMAIN animationsHeap}

\* addEffect(type)
addEffectOf(type) ==
    /\ Len(liveEffects) < MaxEffects
    /\ \E id \in EffectIds \ UsedIds :
          EffectEdit(Append(liveEffects, createEffect(type, id)))

addEffect == \E type \in PageEffectTypes : addEffectOf(type)

\* A slider of effect k moved: handleParameterChange, then updateEffect.
updateEffect ==
    \E k \in DOMAIN liveEffects, value \in PageValues :
        LET effect == liveEffects[k]
            updatedParams == MapPut(effect.parameters, PageParam(effect.type), value)
        IN  EffectEdit([j \in DOMAIN liveEffects |->
                IF liveEffects[j].id = effect.id
                THEN [liveEffects[j] EXCEPT !.parameters = updatedParams]
                ELSE liveEffects[j]])

toggleEffect ==
    \E k \in DOMAIN liveEffects :
        EffectEdit([j \in DOMAIN liveEffects |->
            IF liveEffects[j].id = liveEffects[k].id
            THEN [liveEffects[j] EXCEPT !.enabled = ~@]
            ELSE liveEffects[j]])

\* effects.filter(effect => effect.id !== id)
WithoutId(list, id) ==
    LET keep == {j \in DOMAIN list : list[j].id # id}
        Rank(j) == Cardinality({q \in keep : q <= j})
    IN  [n \in 1..Cardinality(keep) |-> list[CHOOSE j \in keep : Rank(j) = n]]

deleteEffect ==
    \E k \in DOMAIN liveEffects :
        EffectEdit(WithoutId(liveEffects, liveEffects[k].id))

\* The up and down buttons are disabled at the ends of the list.
moveEffect ==
    \E k \in DOMAIN liveEffects, newIndex \in DOMAIN liveEffects :
        /\ newIndex \in {k - 1, k + 1}
        /\ EffectEdit([liveEffects EXCEPT ![k] = liveEffects[newIndex],
                                          ![newIndex] = liveEffects[k]])

\* updateAnimation(effectId, paramName, config)
updateAnimationTo(effectId, paramName, config) ==
    /\ loaded
    /\ editsLeft > 0
    /\ editsLeft' = editsLeft - 1
    /\ LET prevAnims == IF effectId \in DOMAIN liveAnimations
                        THEN liveAnimations[effectId] ELSE EmptyMap
       IN  SetAnimations(MapPut(liveAnimations, effectId,
                                MapPut(prevAnims, paramName, config)))
    /\ useAnimationEngine
    /\ UNCHANGED <<shellVars, animVars, sceneVars, previewRest, pathVars, loaded, font, effects,
                   effectsHeap, presets, exportVars>>

\* An animation control of effect k used: the configuration of its
\* parameter is replaced.
updateAnimation ==
    \E k \in DOMAIN liveEffects, config \in PageAnimConfigs :
        updateAnimationTo(liveEffects[k].id, PageParam(liveEffects[k].type), config)

\* JSON.parse(JSON.stringify(preset.effects)) and (preset.animations)
loadPreset ==
    /\ loaded
    /\ editsLeft > 0
    /\ editsLeft' = editsLeft - 1
    /\ \E p \in DOMAIN presets :
          /\ SetEffects(JsonEffects(presets[p].effects))
          /\ SetAnimations(JsonAnimations(presets[p].animations))
    /\ useAnimationEngine
    /\ UNCHANGED <<shellVars, animVars, sceneVars, previewRest, pathVars, loaded, font, presets,
                   exportVars>>

---------------------------------------------------------------------------
(* app/page.tsx and components/PresetManager.tsx: saving, previewing and   *)
(* loading presets                                                        *)

MaxPresets == 2

PresetIds == {"p2", "p3"}

\* The Save button: savePreset(name).  The preset holds JSON copies of the
\* live effects and animations.
savePreset ==
    /\ loaded
    /\ editsLeft > 0
    /\ Len(presets) < MaxPresets
    /\ editsLeft' = editsLeft - 1
    /\ \E id \in PresetIds \ {presets[p].id : p \in DOMAIN presets} :
          /\ presets' = Append(presets,
                               [id |-> id,
                                effects |-> JsonEffects(liveEffects),
                                animations |-> JsonAnimations(liveAnimations)])
          /\ presetLog' = [presetLog EXCEPT !.saved =
                              MapPut(@, id, [effects |-> liveEffects,
                                             animations |-> liveAnimations])]
    /\ UNCHANGED <<startupVars, fontVars, previewPreset, renderArgs, animVars, sceneVars,
                   previewVars, pathVars, loaded, font, effects, effectsHeap, animations,
                   animationsHeap, exportVars>>

\* The pointer enters a preset (handlePreviewPreset(preset)) or leaves it
\* (handlePreviewPreset(null)).
handlePreviewPreset ==
    /\ loaded
    /\ \E preset \in {presets[p] : p \in DOMAIN presets} \cup {<<>>} :
          /\ \/ preset = <<>> /\ previewPreset # <<>>
             \/ preset # <<>> /\ previewPreset = <<>>
          /\ previewPreset' = preset
    /\ UNCHANGED <<startupVars, fontVars, presetLog, renderArgs, animVars, pageVars,
                   sceneVars, previewVars, pathVars>>

\* The effects and animations FontRenderer is handed.
displayEffects == IF previewPreset # <<>> THEN previewPreset.effects ELSE liveEffects

displayAnimations ==
    IF previewPreset # <<>> THEN previewPreset.animations ELSE liveAnimations

\* A click on a preset: handlePresetClick, which is loadPreset(id) and
\* handlePreviewPreset(null).
handlePresetClick ==
    /\ loaded
    /\ editsLeft > 0
    /\ editsLeft' = editsLeft - 1
    /\ \E p \in DOMAIN presets :
          /\ SetEffects(JsonEffects(presets[p].effects))
          /\ SetAnimations(JsonAnimations(presets[p].animations))
          /\ presetLog' = [presetLog EXCEPT !.loaded = Append(@, presets[p].id)]
    /\ useAnimationEngine
    /\ previewPreset' = <<>>
    /\ UNCHANGED <<startupVars, fontVars, renderArgs, animVars, sceneVars, previewRest,
                   pathVars, loaded, font, presets, exportVars>>

---------------------------------------------------------------------------
(* hooks/useAnimationEngine.ts: the live preview                           *)

\* setEffects(prevEffects => ...) of handleAnimatedParameterUpdate
handleAnimatedParameterUpdate(prevEffects, effectId, paramName, value) ==
    [k \in DOMAIN prevEffects |->
        IF prevEffects[k].id # effectId THEN prevEffects[k]
        ELSE [prevEffects[k] EXCEPT !.parameters = MapPut(@, paramName, value)]]

AnimationEntries(animationMap) ==
    UNION {{<<id, p>> : p \in DOMAIN animationMap[id]} : id \in DOMAIN animationMap}

\* One onUpdate per enabled entry; entries write different keys, so the
\* order of the calls does not show in the result.
RECURSIVE OnUpdateAll(_, _, _, _)
OnUpdateAll(prevEffects, entries, animationMap, elapsed) ==
    IF entries = {} THEN prevEffects
    ELSE LET e == CHOOSE x \in entries : TRUE
             config == animationMap[e[1]][e[2]]
             next == IF config.enabled
                     THEN handleAnimatedParameterUpdate(
                              prevEffects, e[1], e[2], getAnimatedValue(config, elapsed))
                     ELSE prevEffects
         IN  OnUpdateAll(next, entries \ {e}, animationMap, elapsed)

\* One animation frame of the live preview; elapsed is read off the wall
\* clock.
animate ==
    /\ loaded
    /\ hasActiveAnimations(liveAnimations)
    /\ \E elapsed \in PreviewTimes :
          SetEffects(OnUpdateAll(liveEffects, AnimationEntries(liveAnimations),
                                 liveAnimations, elapsed))
    /\ UNCHANGED <<shellVars, animVars, sceneVars, previewVars, pathVars, loaded, font, animations, animationsHeap, presets,
                   exportVars, editsLeft>>

---------------------------------------------------------------------------
(* utils/gifExporter.ts: exportGif, one call per element of runs           *)

\* exportGif up to its loop: the frame count and delay, the offscreen
\* container in the document, an empty encoder.  effects and animations are
\* the references handed in; startEffects and startAnimations record what
\* they held at the call, sampled the frames rendered, frames the frames
\* written to the encoder, progress the values handed to onProgress, yields
\* the setTimeout(0) awaits with what had been reported and sampled by then,
\* errors and failedAt what was thrown and at which frame.
NewRun(settings) ==
    [pc |-> "loop", i |-> 0, fps |-> settings.fps, duration |-> settings.duration,
     totalFrames |-> TotalFrames(settings.fps, settings.duration),
     frameDelay |-> FrameDelay(settings.fps),
     effects |-> effects, animations |-> animations,
     startEffects |-> liveEffects, startAnimations |-> liveAnimations,
     sampled |-> <<>>, frames |-> <<>>, progress |-> <<>>, yields |-> <<>>,
     container |-> TRUE, cancelRequested |-> FALSE, errors |-> 0, failedAt |-> -1]

\* An export that notes the error and stays where it is.
FailedButGoesOn(r) == [r EXCEPT !.errors = @ + 1, !.failedAt = r.i]

\* An export that throws and leaves its container in the document.
FailedKeepingContainer(r) ==
    [r EXCEPT !.pc = "failed", !.errors = @ + 1, !.failedAt = r.i]

\* The export has thrown at frame r.i: it ends there, and the finally block
\* detaches the container.
Failed(r) ==
    [r EXCEPT !.pc = "failed", !.container = FALSE, !.errors = @ + 1,
              !.failedAt = r.i]

\* Frame r.i: resolve the effects at its time, render and serialize the SVG
\* (which may throw), and start rasterizing it.
SampleFrame(r, renderOk) ==
    LET time == FrameTime(r.i, r.fps)
        frameEffects ==
            applyAnimatedValues(effectsHeap[r.effects],
                                animationsHeap[r.animations], time)
    IN  IF renderOk
        THEN [r EXCEPT !.pc = "rasterizing",
                       !.sampled = Append(@, [index |-> r.i, time |-> time,
                                              effects |-> frameEffects])]
        ELSE Failed(r)

\* The head of the loop: frame r.i if there is one, else finish the encoder
\* and return its bytes (the finally block detaches the container).
LoopHead(r, renderOk) ==
    IF RLt(Num(r.i), r.totalFrames) THEN SampleFrame(r, renderOk)
    ELSE [r EXCEPT !.pc = "done", !.container = FALSE]

\* svgToCanvas has settled for frame r.i.  On success the frame is quantized
\* and written, progress is reported, and the loop yields or goes on.
AfterRaster(r, outcome, renderOk) ==
    IF outcome # "ok" THEN Failed(r)
    ELSE LET written ==
                 [r EXCEPT !.frames = Append(@, [index |-> r.i,
                                                 delay |-> r.frameDelay,
                                                 effects |-> Last(r.sampled).effects]),
                           !.progress = Append(@, ProgressAfter(r.i, r.totalFrames))]
         IN  IF YieldsAfter(r.i)
             THEN [written EXCEPT !.pc = "yielding",
                                  !.yields = Append(@, [after |-> r.i,
                                                        reported |-> Len(written.progress),
                                                        sampled |-> Len(written.sampled)])]
             ELSE LoopHead([written EXCEPT !.i = @ + 1], renderOk)

\* The setTimeout(0) of the yield has fired.
AfterYield(r, renderOk) == LoopHead([r EXCEPT !.i = @ + 1], renderOk)

---------------------------------------------------------------------------
(* app/page.tsx: handleGifExport and the export dialog                     *)

\* What handleGifExport does with run k now in state r2: an export that has
\* returned is downloaded and closes the dialog, one that has thrown is
\* reported with one alert, and either way the exporting flag and the
\* progress are reset; an export still running only has its progress shown.
Settle(k, r, r2, starting) ==
    /\ r2.pc = "failed" => faultsLeft > 0
    /\ faultsLeft' = IF r2.pc = "failed" THEN faultsLeft - 1 ELSE faultsLeft
    /\ IF r2.pc \in {"done", "failed"}
       THEN /\ runs' = RemoveAt(runs, k)
            /\ lastRun' = [outcome |-> IF r2.pc = "done" THEN "success" ELSE "failed",
                           run |-> r2,
                           downloaded |-> r2.pc = "done",
                           alerts |-> IF r2.pc = "failed" THEN 1 ELSE 0]
            /\ showGifDialog' = IF r2.pc = "done" THEN FALSE ELSE showGifDialog
            /\ lastAlert' = IF r2.pc = "failed" THEN "GIF export failed" ELSE lastAlert
            /\ gifExporting' = FALSE
            /\ gifProgress' = Zero
            /\ DropUnheld(RemoveAt(runs, k))
       ELSE /\ runs' = [j \in 1..Max(Len(runs), k) |-> IF j = k THEN r2 ELSE runs[j]]
            /\ gifProgress' = IF Len(r2.progress) > Len(r.progress) THEN Last(r2.progress)
                             ELSE IF starting THEN Zero ELSE gifProgress
            /\ gifExporting' = (starting \/ gifExporting)
            /\ UNCHANGED <<lastRun, showGifDialog, lastAlert, effectsHeap, animationsHeap>>

\* The Export button is there whether or not an export is running.
ExportButtonAlways == showGifDialog

\* The dialog shows its Export button only while no export is running.
ExportButtonShown == showGifDialog /\ ~gifExporting

\* The Export button: handleExport, then handleGifExport(settings) up to the
\* first await of exportGif.
handleGifExport(settings) ==
    /\ loaded
    /\ ExportButtonShown
    /\ IF font = "null"
       THEN /\ lastAlert' = "Font not loaded yet"
            /\ UNCHANGED <<showGifDialog, gifExporting, gifProgress, runs, lastRun,
                           exportsLeft, effectsHeap, animationsHeap, faultsLeft>>
       ELSE /\ exportsLeft > 0
            /\ Len(runs) < MaxRuns
            /\ exportsLeft' = exportsLeft - 1
            /\ \E renderOk \in BOOLEAN :
                  Settle(Len(runs) + 1, NewRun(settings),
                         LoopHead(NewRun(settings), renderOk), TRUE)
    /\ UNCHANGED <<shellVars, animVars, sceneVars, previewVars, pathVars, loaded, font, effects, animations, presets, editsLeft>>

\* The image of the frame being rasterized has loaded, or failed to; then
\* the encoder takes the frame, or throws.
RasterSettles ==
    /\ \E k \in DOMAIN runs :
          /\ runs[k].pc = "rasterizing"
          /\ \E outcome \in {"ok", "rasterFail", "encodeFail"}, renderOk \in BOOLEAN :
                Settle(k, runs[k], AfterRaster(runs[k], outcome, renderOk), FALSE)
    /\ UNCHANGED <<shellVars, animVars, sceneVars, previewVars, pathVars, loaded, font, effects, animations, presets,
                   exportsLeft, editsLeft>>

\* The browser runs the timer of a yielded export.
YieldReturns ==
    /\ \E k \in DOMAIN runs :
          /\ runs[k].pc = "yielding"
          /\ \E renderOk \in BOOLEAN : Settle(k, runs[k], AfterYield(runs[k], renderOk), FALSE)
    /\ UNCHANGED <<shellVars, animVars, sceneVars, previewVars, pathVars, loaded, font, effects, animations, presets,
                   exportsLeft, editsLeft>>

\* The GIF button of the toolbar.
OpenGifDialog ==
    /\ loaded
    /\ ~showGifDialog
    /\ showGifDialog' = TRUE
    /\ UNCHANGED <<shellVars, animVars, sceneVars, previewVars, pathVars, loaded, font, effects, effectsHeap, animations,
                   animationsHeap, presets, gifExporting, gifProgress, runs,
                   lastRun, lastAlert, exportsLeft, editsLeft, faultsLeft>>

\* A cancel that drops the exports in flight.
onCancelAborting ==
    /\ loaded
    /\ showGifDialog
    /\ showGifDialog' = FALSE
    /\ runs' = <<>>
    /\ gifExporting' = FALSE
    /\ gifProgress' = Zero
    /\ DropUnheld(<<>>)
    /\ UNCHANGED <<shellVars, animVars, sceneVars, previewVars, pathVars, loaded, font, effects, animations, presets, lastRun,
                   lastAlert, exportsLeft, editsLeft, faultsLeft>>

\* The Close / Cancel button of the dialog: it closes the dialog unless an
\* export is running; then it does nothing (the runs only note the request).
onCancel ==
    /\ loaded
    /\ showGifDialog
    /\ IF ~gifExporting
       THEN /\ showGifDialog' = FALSE
            /\ UNCHANGED runs
       ELSE /\ runs' = [k \in DOMAIN runs |-> [runs[k] EXCEPT !.cancelRequested = TRUE]]
            /\ UNCHANGED showGifDialog
    /\ UNCHANGED <<shellVars, animVars, sceneVars, previewVars, pathVars, loaded, font, effects, effectsHeap, animations,
                   animationsHeap, presets, gifExporting, gifProgress, lastRun,
                   lastAlert, exportsLeft, editsLeft, faultsLeft>>

\* No applyEffects call is under way.
SceneIdle ==
    /\ scene = <<>>
    /\ sceneAtCall = <<>>
    /\ fxEffects = <<>>
    /\ fxQueue = <<>>
    /\ fxApplied = <<>>
    /\ fxPc = "idle"

\* The storage is not looked at.
StartupIdle ==
    /\ storage = <<>>
    /\ storedAtMount = <<>>
    /\ mountPc = "idle"
    /\ queued = <<>>

\* No path is being worked on.
PathIdle ==
    /\ pathText = <<>>
    /\ pathN = Zero
    /\ pathCommands = <<>>
    /\ pathSubdivided = <<>>
    /\ pathSerialized = <<>>
    /\ pathReparsed = <<>>
    /\ pathPc = "idle"

---------------------------------------------------------------------------
(* SpecAnim: getAnimatedValue on drawn inputs                              *)

\* Speeds in cycles per second, the degenerate ones (0, negative) included.
AnimSpeeds == {Num(-1), Zero, One, Two}

\* (min, max) pairs with min <= max
AnimRanges == {<<Num(0), Num(100)>>, <<Num(-10), Num(30)>>, <<Num(7), Num(7)>>}

AnimConfigs ==
    {[enabled |-> e, min |-> r[1], max |-> r[2], speed |-> s, easing |-> f,
      pingPong |-> p] :
        e \in BOOLEAN, r \in AnimRanges, s \in AnimSpeeds,
        f \in EasingFunction, p \in BOOLEAN}

InitAnim ==
    /\ animCfg \in AnimConfigs
    /\ animTime \in AnimTimes
    /\ animValue = NaN
    /\ animPc = "input"
    /\ InitPage
    /\ SceneIdle
    /\ PathIdle
    /\ StartupIdle
    /\ editsLeft = 0
    /\ faultsLeft = 0
    /\ exportsLeft = 0

\* One call getAnimatedValue(animCfg, animTime).
CallGetAnimatedValue ==
    /\ animPc = "input"
    /\ animValue' = getAnimatedValue(animCfg, animTime)
    /\ animPc' = "done"
    /\ UNCHANGED <<shellVars, animCfg, animTime, pageVars, sceneVars, previewVars, pathVars>>

\* The caller's clock moves on a quarter of a second before the next call.
AnimTick ==
    /\ animPc = "done"
    /\ RLt(animTime, Rat(MaxTick, 4))
    /\ animTime' = RAdd(animTime, Rat(1, 4))
    /\ animPc' = "input"
    /\ UNCHANGED <<shellVars, animCfg, animValue, pageVars, sceneVars, previewVars, pathVars>>

NextAnim == CallGetAnimatedValue \/ AnimTick

SpecAnim == InitAnim /\ [][NextAnim]_vars

---------------------------------------------------------------------------
(* Spec: the page, with edits, live preview and exports interleaved        *)

\* The exports of the page model are short.
PageSettings == {Settings(Num(4), One)}

AnimIdle ==
    /\ animCfg = DEFAULT_ANIMATION_CONFIG
    /\ animTime = Zero
    /\ animValue = NaN
    /\ animPc = "idle"

Init ==
    /\ AnimIdle
    /\ InitPage
    /\ SceneIdle
    /\ PathIdle
    /\ StartupIdle
    /\ editsLeft = MaxEdits
    /\ faultsLeft = 0
    /\ exportsLeft = MaxPageExports

Next ==
    \/ MountLoad
    \/ FontLoaded
    \/ addEffect
    \/ updateEffect
    \/ toggleEffect
    \/ deleteEffect
    \/ moveEffect
    \/ updateAnimation
    \/ loadPreset
    \/ animate
    \/ OpenGifDialog
    \/ \E settings \in PageSettings : handleGifExport(settings)
    \/ RasterSettles
    \/ YieldReturns

Spec == Init /\ [][Next]_vars

---------------------------------------------------------------------------
(* SpecExport: exports alone, over a wider range of settings               *)

ExportSettings ==
    {Settings(Num(10), Two), Settings(Num(3), Rat(1, 10)),
     Settings(Num(30), Rat(1, 10)), Settings(Rat(5, 2), One),
     Settings(Num(7), Half), Settings(One, Rat(3, 2))}

InitExport ==
    /\ AnimIdle
    /\ InitPage
    /\ SceneIdle
    /\ PathIdle
    /\ StartupIdle
    /\ editsLeft = 0
    /\ faultsLeft = MaxFaults
    /\ exportsLeft = MaxExports

NextExport ==
    \/ MountLoad
    \/ FontLoaded
    \/ OpenGifDialog
    \/ onCancel
    \/ \E settings \in ExportSettings : handleGifExport(settings)
    \/ RasterSettles
    \/ YieldReturns

SpecExport == InitExport /\ [][NextExport]_vars

---------------------------------------------------------------------------
(* SpecPreview: the live preview against the wall clock                    *)

\* The clock runs in half seconds up to MaxClock of them; the user makes up
\* to MaxPreviewEdits edits.
MaxClock == 3
MaxPreviewEdits == 3

InitPreview ==
    /\ AnimIdle
    /\ InitPage
    /\ SceneIdle
    /\ PathIdle
    /\ StartupIdle
    /\ editsLeft = MaxPreviewEdits
    /\ faultsLeft = 0
    /\ exportsLeft = 0

\* Half a second passes.
ClockTick ==
    /\ loaded
    /\ RLt(now, Rat(MaxClock, 2))
    /\ now' = RAdd(now, Half)
    /\ UNCHANGED <<shellVars, animVars, pageVars, sceneVars, engineVars, lastElapsed, lastTickAt,
                   pathVars>>

\* The frame requested runs animate: every enabled entry is resolved at the
\* time elapsed since startTimeRef and handed to onUpdate, and the next frame
\* is requested.
AnimationFrame ==
    /\ loaded
    /\ animationFrameRef
    /\ LET elapsed == RSub(now, startTimeRef)
       IN  /\ SetEffects(OnUpdateAll(liveEffects, AnimationEntries(liveAnimations),
                                     liveAnimations, elapsed))
           /\ lastElapsed' = elapsed
    /\ lastTickAt' = now
    /\ UNCHANGED <<shellVars, animVars, sceneVars, pathVars, now, engineVars, loaded, font,
                   animations, animationsHeap, presets, exportVars, editsLeft>>

NextPreview ==
    \/ MountLoad
    \/ updateAnimation
    \/ loadPreset
    \/ ClockTick
    \/ AnimationFrame

SpecPreview == InitPreview /\ [][NextPreview]_vars

---------------------------------------------------------------------------
(* SpecControls: components/AnimationControl.tsx, the animation controls   *)
(* of the effect items                                                     *)

\* The edits the user makes in the controls model.
MaxControlEdits == 3

\* animations[effect.id]?.[paramName] || DEFAULT_ANIMATION_CONFIG: the
\* configuration an effect item hands to the control of a parameter.
ControlConfig(effectId, paramName) ==
    IF effectId \in DOMAIN liveAnimations /\ paramName \in DOMAIN liveAnimations[effectId]
    THEN liveAnimations[effectId][paramName]
    ELSE DEFAULT_ANIMATION_CONFIG

\* The values the Min and Max sliders are dragged to: the ends of the
\* parameter's range.
SliderValues(paramRange) == {paramRange.min, paramRange.max}

\* The ends of the Speed slider (min 0.1, max 5).
SpeedValues == {Rat(1, 10), Num(5)}

\* The play / pause button of a parameter: handleToggleEnabled.
handleToggleEnabled ==
    \E k \in DOMAIN liveEffects :
        \E paramName \in DOMAIN PARAMETER_RANGES(liveEffects[k].type) :
            LET config == ControlConfig(liveEffects[k].id, paramName)
            IN  updateAnimationTo(liveEffects[k].id, paramName,
                                  [config EXCEPT !.enabled = ~@])

\* What handleChange(field, value) can make of config from the inputs of the
\* popover.
ChangedConfigs(config, paramRange) ==
    {[config EXCEPT !.min = v] : v \in SliderValues(paramRange)}
        \cup {[config EXCEPT !.max = v] : v \in SliderValues(paramRange)}
        \cup {[config EXCEPT !.speed = v] : v \in SpeedValues}
        \cup {[config EXCEPT !.easing = f] : f \in EasingFunction}
        \cup {[config EXCEPT !.pingPong = ~@]}

\* An input of the popover changed: handleChange.  The popover is there only
\* while the animation is enabled.
handleChange ==
    \E k \in DOMAIN liveEffects :
        \E paramName \in DOMAIN PARAMETER_RANGES(liveEffects[k].type) :
            LET config == ControlConfig(liveEffects[k].id, paramName)
                paramRange == PARAMETER_RANGES(liveEffects[k].type)[paramName]
            IN  /\ config.enabled
                /\ \E changed \in ChangedConfigs(config, paramRange) :
                      updateAnimationTo(liveEffects[k].id, paramName, changed)

InitControls ==
    /\ AnimIdle
    /\ InitPage
    /\ SceneIdle
    /\ PathIdle
    /\ StartupIdle
    /\ editsLeft = MaxControlEdits
    /\ faultsLeft = 0
    /\ exportsLeft = 0

NextControls ==
    \/ MountLoad
    \/ \E type \in EffectType : addEffectOf(type)
    \/ handleToggleEnabled
    \/ handleChange

SpecControls == InitControls /\ [][NextControls]_vars

---------------------------------------------------------------------------
(* SpecScene: applyEffects on drawn scenes and effect lists                *)

MaxSceneEffects == 3

\* glyph.getPath(...).toPathData(2) for the glyphs of the model font: a
\* triangle, a triangle drawn with relative commands, an angle drawn with
\* curves, and nothing for a space.
GlyphPathData(char) ==
    CASE char = "A" ->
             serializePath(<<PathCommand("M", <<Zero, Zero>>),
                             PathCommand("L", <<Num(16), Zero>>),
                             PathCommand("L", <<Num(16), Num(16)>>),
                             PathCommand("Z", <<>>)>>)
      [] char = "b" ->
             serializePath(<<PathCommand("M", <<Num(32), Zero>>),
                             PathCommand("l", <<Num(16), Zero>>),
                             PathCommand("l", <<Zero, Num(16)>>),
                             PathCommand("z", <<>>)>>)
      [] char = "c" ->
             serializePath(<<PathCommand("M", <<Rat(1, 4), Half>>),
                             PathCommand("Q", <<Rat(33, 4), Half, Rat(65, 4), Half>>),
                             PathCommand("C", <<Rat(65, 4), Rat(17, 2),
                                                Rat(65, 4), Rat(33, 2),
                                                Rat(65, 4), Rat(49, 2)>>),
                             PathCommand("Z", <<>>)>>)
      [] OTHER -> <<>>

\* The character groups renderSVGFrame builds for one line of text, before
\* any effect.
RenderLine(line, wireframeMode) ==
    [k \in 1..Len(line) |->
        [char |-> line[k], charIndex |-> k - 1, transform |-> NoTransform,
         opacity |-> <<>>, duplicate |-> FALSE,
         paths |->
            IF GlyphPathData(line[k]) = <<>> THEN <<>>
            ELSE <<[d |-> GlyphPathData(line[k]),
                    fill |-> IF wireframeMode THEN Paint("none")
                             ELSE Paint("currentColor"),
                    stroke |-> IF wireframeMode THEN Paint("currentColor")
                               ELSE Paint("absent"),
                    strokeWidth |-> IF wireframeMode THEN <<Two>> ELSE <<>>,
                    linejoin |-> "", linecap |-> "", paintOrder |-> "",
                    outline |-> FALSE]>>]]

\* A filled line and a wireframe line, each a glyph and a space.
Scenes == {RenderLine(<<"A", " ">>, FALSE), RenderLine(<<" ", "b">>, TRUE)}

\* One effect of each type: the defaults, with fewer copies and subdivisions.
SceneEffect(type) ==
    CASE type = "multiply" ->
             [createEffect(type, "e1") EXCEPT !.parameters.count = Two]
      [] type = "distortion" -> createEffect(type, "e2")
      [] type = "outline" -> createEffect(type, "e3")
      [] type = "subdivide" ->
             [createEffect(type, "e4") EXCEPT !.parameters.subdivisions = Two]
      [] type = "color" -> createEffect(type, "e5")

\* The lists of up to MaxSceneEffects effects of different types, each
\* enabled or not.
SceneEffectLists ==
    UNION {
        {[k \in 1..n |-> [SceneEffect(types[k]) EXCEPT !.enabled = on[k]]] :
            types \in {t \in [1..n -> EffectType] :
                          \A i, j \in 1..n : i # j => t[i] # t[j]},
            on \in [1..n -> BOOLEAN]} :
        n \in 0..MaxSceneEffects}

InitScene ==
    /\ AnimIdle
    /\ InitPage
    /\ PathIdle
    /\ StartupIdle
    /\ editsLeft = 0
    /\ faultsLeft = 0
    /\ exportsLeft = 0
    /\ scene \in Scenes
    /\ sceneAtCall = scene
    /\ fxEffects \in SceneEffectLists
    /\ fxQueue = <<>>
    /\ fxApplied = <<>>
    /\ fxPc = "call"

\* applyEffects(scene, fxEffects) up to its loop: the filter.
CallApplyEffects ==
    /\ fxPc = "call"
    /\ fxQueue' = enabledEffects(fxEffects)
    /\ fxPc' = "loop"
    /\ UNCHANGED <<shellVars, animVars, pageVars, previewVars, pathVars, scene, sceneAtCall, fxEffects, fxApplied>>

\* One turn of the loop: the next enabled effect works on the scene.
ApplyNextEffect ==
    /\ fxPc = "loop"
    /\ fxQueue # <<>>
    /\ scene' = ApplyEffect(scene, Head(fxQueue))
    /\ fxApplied' = Append(fxApplied, Head(fxQueue).id)
    /\ fxQueue' = Tail(fxQueue)
    /\ UNCHANGED <<shellVars, animVars, pageVars, previewVars, pathVars, sceneAtCall, fxEffects, fxPc>>

\* The loop is through and applyEffects returns.
ApplyEffectsReturns ==
    /\ fxPc = "loop"
    /\ fxQueue = <<>>
    /\ fxPc' = "done"
    /\ UNCHANGED <<shellVars, animVars, pageVars, previewVars, pathVars, scene, sceneAtCall, fxEffects, fxQueue,
                   fxApplied>>

NextScene == CallApplyEffects \/ ApplyNextEffect \/ ApplyEffectsReturns

SpecScene == InitScene /\ [][NextScene]_vars

---------------------------------------------------------------------------
(* SpecEffect: applyEffects with one enabled effect, over its parameters   *)

MaxCount == 3

\* An effect of the type with the given parameters in place of its defaults.
EffectWith(type, given) ==
    LET effect == createEffect(type, "e1")
    IN  [effect EXCEPT !.parameters =
            [p \in DOMAIN effect.parameters |->
                IF p \in DOMAIN given THEN given[p] ELSE effect.parameters[p]]]

MultiplyInputs ==
    {EffectWith("multiply",
                [count |-> Num(count), offsetX |-> offsetX, offsetY |-> offsetY,
                 rotation |-> rotation, opacityDecay |-> opacityDecay]) :
        count \in 1..MaxCount, offsetX \in {Zero, Num(10)},
        offsetY \in {Zero, Num(-5)}, rotation \in {Zero, Num(90)},
        opacityDecay \in {Zero, Rat(1, 5)}}

\* Drawn lines, and lines an earlier Multiply has worked on.
MultiplyScenes == Scenes \cup {ApplyEffect(svg, SceneEffect("multiply")) : svg \in Scenes}

DistortionInputs ==
    {EffectWith("distortion",
                [amplitude |-> Zero, waveType |-> waveType, frequency |-> frequency,
                 phase |-> phase]) :
        waveType \in {"sin", "saw", "triangle"}, frequency \in {One, Two},
        phase \in {Zero, Num(180)}}

DistortionScenes == Scenes \cup {RenderLine(<<"c">>, FALSE)}

ColorInputs ==
    {EffectWith("color", [hue |-> hsl[1], saturation |-> hsl[2], lightness |-> hsl[3]]) :
        hsl \in {<<Num(120), Num(100), Num(50)>>, <<Zero, Zero, Zero>>}}

Paints == {Paint("absent"), Paint("none"), Paint("red"), Paint("currentColor")}

\* The scene with every path painted anew.
Painted(svg, fill, stroke) ==
    [k \in DOMAIN svg |->
        [svg[k] EXCEPT !.paths =
            [j \in DOMAIN svg[k].paths |->
                [svg[k].paths[j] EXCEPT !.fill = fill, !.stroke = stroke]]]]

ColorScenes ==
    {Painted(RenderLine(<<"A", "b">>, FALSE), fill, stroke) : fill, stroke \in Paints}

EffectCases ==
    (MultiplyScenes \X MultiplyInputs) \cup (DistortionScenes \X DistortionInputs)
        \cup (ColorScenes \X ColorInputs)

InitEffect ==
    /\ AnimIdle
    /\ InitPage
    /\ PathIdle
    /\ StartupIdle
    /\ editsLeft = 0
    /\ faultsLeft = 0
    /\ exportsLeft = 0
    /\ \E case \in EffectCases :
           /\ scene = case[1]
           /\ fxEffects = <<case[2]>>
    /\ sceneAtCall = scene
    /\ fxQueue = <<>>
    /\ fxApplied = <<>>
    /\ fxPc = "call"

SpecEffect == InitEffect /\ [][NextScene]_vars

---------------------------------------------------------------------------
(* SpecPath: parsePath, subdividePath and serializePath on path texts      *)

MaxSubdivisions == 3

\* "M0 0", "m1 1", "M0.125 -0.125"
PathStarts ==
    {<<Letter("M"), Number(Zero), Number(Zero)>>,
     <<Letter("m"), Number(One), Number(One)>>,
     <<Letter("M"), Number(Rat(1, 8)), Number(Rat(-1, 8))>>}

\* One command each: lines, curves, a close, and commands subdividePath does
\* not know.
PathSegments ==
    {<<Letter("L"), Number(Num(10)), Number(Zero)>>,
     <<Letter("l"), Number(Num(3)), Number(Rat(-7, 2))>>,
     <<Letter("Q"), Number(Num(4)), Number(Num(8)), Number(Num(8)), Number(Zero)>>,
     <<Letter("q"), Number(Rat(1, 3)), Number(One), Number(Two), Number(Rat(2, 3))>>,
     <<Letter("C"), Number(Zero), Number(Num(4)), Number(Num(6)), Number(Num(4)),
       Number(Num(6)), Number(Zero)>>,
     <<Letter("c"), Number(One), Number(Two), Number(Num(3)), Number(Two),
       Number(Num(4)), Number(Rat(1005, 1000))>>,
     <<Letter("Z")>>,
     <<Letter("z")>>,
     <<Letter("H"), Number(Num(5))>>,
     <<Letter("A"), Number(Num(5)), Number(Num(5)), Number(Zero), Number(Zero),
       Number(One), Number(Num(10)), Number(Num(10))>>}

\* A start and up to two segments, and "M1e999 0", whose first number is
\* beyond the largest double.
PathTexts ==
    {start \o segment : start \in PathStarts, segment \in PathSegments}
        \cup {start \o first \o second :
                  start \in {<<Letter("M"), Number(Zero), Number(Zero)>>},
                  first \in PathSegments, second \in PathSegments}
        \cup {<<Letter("M"), Number(Infinity), Number(Zero)>>}

InitPath ==
    /\ AnimIdle
    /\ InitPage
    /\ SceneIdle
    /\ StartupIdle
    /\ editsLeft = 0
    /\ faultsLeft = 0
    /\ exportsLeft = 0
    /\ pathText \in PathTexts
    /\ pathN \in {Num(n) : n \in 1..MaxSubdivisions}
    /\ pathCommands = <<>>
    /\ pathSubdivided = <<>>
    /\ pathSerialized = <<>>
    /\ pathReparsed = <<>>
    /\ pathPc = "text"

\* parsePath(pathText)
CallParsePath ==
    /\ pathPc = "text"
    /\ pathCommands' = parsePath(pathText)
    /\ pathPc' = "parsed"
    /\ UNCHANGED <<shellVars, animVars, pageVars, sceneVars, previewVars, pathText, pathN,
                   pathSubdivided, pathSerialized, pathReparsed>>

\* subdividePath(pathCommands, pathN)
CallSubdividePath ==
    /\ pathPc = "parsed"
    /\ pathSubdivided' = subdividePath(pathCommands, pathN)
    /\ pathPc' = "subdivided"
    /\ UNCHANGED <<shellVars, animVars, pageVars, sceneVars, previewVars, pathText, pathN,
                   pathCommands, pathSerialized, pathReparsed>>

\* serializePath(pathCommands)
CallSerializePath ==
    /\ pathPc = "parsed"
    /\ pathSerialized' = serializePath(pathCommands)
    /\ pathPc' = "serialized"
    /\ UNCHANGED <<shellVars, animVars, pageVars, sceneVars, previewVars, pathText, pathN,
                   pathCommands, pathSubdivided, pathReparsed>>

\* parsePath(pathSerialized)
CallParsePathAgain ==
    /\ pathPc = "serialized"
    /\ pathReparsed' = parsePath(pathSerialized)
    /\ pathPc' = "reparsed"
    /\ UNCHANGED <<shellVars, animVars, pageVars, sceneVars, previewVars, pathText, pathN,
                   pathCommands, pathSubdivided, pathSerialized>>

NextPath ==
    CallParsePath \/ CallSubdividePath \/ CallSerializePath \/ CallParsePathAgain

SpecPath == InitPath /\ [][NextPath]_vars

---------------------------------------------------------------------------
(* SpecRender: renderSVGFrame, render after render into one svg element    *)

MaxRenderEffects == 2

\* A clearing loop that removes nothing.
RemoveNoChildren(svg) == svg

\* while (svgElement.firstChild) svgElement.removeChild(svgElement.firstChild)
RECURSIVE RemoveChildren(_)
RemoveChildren(svg) == IF svg = <<>> THEN svg ELSE RemoveChildren(Tail(svg))

\* The loop of applyEffects over the enabled effects, in their order.
RECURSIVE ApplyQueue(_, _)
ApplyQueue(svg, queue) ==
    IF queue = <<>> THEN svg ELSE ApplyQueue(ApplyEffect(svg, Head(queue)), Tail(queue))

applyEffects(svg, effectList) == ApplyQueue(svg, enabledEffects(effectList))

\* renderSVGFrame on an svg element holding the character groups svg: clear
\* it, append the groups of the line, and apply the effects if there are any.
renderSVGFrame(svg, line, wireframeMode, effectList) ==
    LET drawn == RemoveChildren(svg) \o RenderLine(line, wireframeMode)
    IN  IF Len(effectList) > 0 THEN applyEffects(drawn, effectList) ELSE drawn

RenderArgs(line, wireframeMode, effectList) ==
    [text |-> line, wireframeMode |-> wireframeMode, effects |-> effectList]

RenderLines == {<<"A", " ">>, <<"b">>}

RenderEffectTypes == {"multiply", "distortion", "outline"}

\* What the next render may be handed after args: the same again, the other
\* text, the other mode, one effect more or one effect less.
NextRenderArgs(args) ==
    {args}
    \cup {[args EXCEPT !.text = line] : line \in RenderLines}
    \cup {[args EXCEPT !.wireframeMode = ~@]}
    \cup {[args EXCEPT !.effects = Append(@, SceneEffect(type))] :
             type \in {t \in RenderEffectTypes :
                          /\ Len(args.effects) < MaxRenderEffects
                          /\ \A k \in DOMAIN args.effects : args.effects[k].type # t}}
    \cup {[args EXCEPT !.effects = RemoveAt(@, k)] : k \in DOMAIN args.effects}

\* The render effect of FontRenderer, or a frame of exportGif: a call of
\* renderSVGFrame on the svg element as the last call left it.
RenderFrame ==
    /\ font # "null"
    /\ \E args \in IF renderArgs = <<>>
                  THEN {RenderArgs(line, FALSE, <<>>) : line \in RenderLines}
                  ELSE NextRenderArgs(renderArgs) :
          /\ renderArgs' = args
          /\ sceneAtCall' = scene
          /\ scene' = renderSVGFrame(scene, args.text, args.wireframeMode, args.effects)
    /\ UNCHANGED <<startupVars, fontVars, previewPreset, presetLog, animVars, pageVars, previewVars,
                   pathVars, fxEffects, fxQueue, fxApplied, fxPc>>

InitRender ==
    /\ AnimIdle
    /\ InitPage
    /\ SceneIdle
    /\ PathIdle
    /\ StartupIdle
    /\ editsLeft = 0
    /\ faultsLeft = 0
    /\ exportsLeft = 0

NextRender == MountLoad \/ FontLoaded \/ RenderFrame

SpecRender == InitRender /\ [][NextRender]_vars

---------------------------------------------------------------------------
(* SpecPresets: presets saved, previewed and loaded between edits          *)

MaxPresetEdits == 3

InitPresets ==
    /\ AnimIdle
    /\ InitPage
    /\ SceneIdle
    /\ PathIdle
    /\ StartupIdle
    /\ editsLeft = MaxPresetEdits
    /\ faultsLeft = 0
    /\ exportsLeft = 0

NextPresets ==
    \/ MountLoad
    \/ updateEffect
    \/ deleteEffect
    \/ updateAnimation
    \/ animate
    \/ savePreset
    \/ handlePreviewPreset
    \/ handlePresetClick

SpecPresets == InitPresets /\ [][NextPresets]_vars

---------------------------------------------------------------------------
(* components/FontRenderer.tsx: the font load effect and the render effect *)

MaxFontLoads == 3

\* The font files of /api/fonts.
FontPaths == {"A.ttf", "B.ttf"}

\* An opentype.load call: its path, whether it is pending, loaded or failed,
\* and how many loads had failed when it was made.
FontLoad(path) ==
    [path |-> path, status |-> "pending",
     failuresBefore |->
         Cardinality({k \in DOMAIN fontLoads : fontLoads[k].status = "failed"})]

PendingLoads == {k \in DOMAIN fontLoads : fontLoads[k].status = "pending"}

\* The effect on [fontPath] for a path: loading is shown in place of the svg
\* element, the error is cleared and the font file is requested.
FontLoadEffect(path) ==
    /\ fontLoading' = TRUE
    /\ fontError' = ""
    /\ fontLoads' = Append(fontLoads, FontLoad(path))
    /\ rendered' = "none"

\* The font select of Home: setSelectedFont(path), and the effect of
\* FontRenderer on the new fontPath.
selectFont ==
    /\ loaded
    /\ fontPath # "null"
    /\ Len(fontLoads) < MaxFontLoads
    /\ \E path \in FontPaths \ {fontPath} :
          /\ fontPath' = path
          /\ FontLoadEffect(path)
    /\ UNCHANGED <<startupVars, previewPreset, presetLog, renderArgs, animVars, pageVars, sceneVars,
                   previewVars, pathVars>>

\* A callback that keeps the font it had when the load fails.
LoadSettlesKeepingFont(k, ok) ==
    LET path == fontLoads[k].path
    IN  /\ fontLoads' = [fontLoads EXCEPT ![k].status = IF ok THEN "loaded" ELSE "failed"]
        /\ fontLoading' = FALSE
        /\ fontError' = IF ok THEN fontError ELSE "Failed to load font"
        /\ font' = IF ok THEN path ELSE font
        /\ rendered' = IF ok /\ fontError = "" THEN path ELSE "none"

\* The callback of opentype.load call k: loading ends; an error is shown and
\* the font cleared, or the font is held, and then the render effect draws
\* the scene into the svg element if there is one (no loading, no error).
LoadSettles(k, ok) ==
    LET path == fontLoads[k].path
    IN  /\ fontLoads' = [fontLoads EXCEPT ![k].status = IF ok THEN "loaded" ELSE "failed"]
        /\ fontLoading' = FALSE
        /\ fontError' = IF ok THEN fontError ELSE "Failed to load font"
        /\ font' = IF ok THEN path ELSE "null"
        /\ rendered' = IF ok /\ fontError = "" THEN path ELSE "none"

FontLoadSettles ==
    /\ \E k \in PendingLoads, ok \in BOOLEAN : LoadSettles(k, ok)
    /\ UNCHANGED <<startupVars, previewPreset, presetLog, renderArgs, fontPath, animVars, sceneVars,
                   previewVars, pathVars, loaded, effects, effectsHeap, animations,
                   animationsHeap, presets, exportVars, editsLeft>>

---------------------------------------------------------------------------
(* app/page.tsx: startup, in the steps of the first commit of Home         *)

\* What localStorage.getItem gives: null, "", a text JSON.parse throws on,
\* or the JSON text of a value.
Absent == [kind |-> "absent"]

Empty == [kind |-> "empty"]

Garbage == [kind |-> "garbage"]

JsonText(value) == [kind |-> "json", value |-> value]

StorageKeys == {"effects", "animations", "presets"}

\* The state of Home under a key of the storage.
LiveState(key) ==
    CASE key = "effects" -> liveEffects
      [] key = "animations" -> liveAnimations
      [] key = "presets" -> presets

\* JSON.stringify of it, as the save effects write it.
Stringified(key, value) ==
    CASE key = "effects" -> JsonText(JsonEffects(value))
      [] key = "animations" -> JsonText(JsonAnimations(value))
      [] key = "presets" -> JsonText(JsonPresets(value))

\* A saved session.
StoredSession ==
    [effects |-> <<createEffect("multiply", "e1"), createEffect("color", "e2")>>,
     animations |-> MapPut(EmptyMap, "e1", MapPut(EmptyMap, "count", AnimOn)),
     presets |-> <<SavedPreset>>]

StoredItems(key) == {Absent, Empty, Garbage, Stringified(key, StoredSession[key])}

\* A mount effect that reads nothing.
ReadNothing(item) == <<>>

\* if (saved) { try { setX(JSON.parse(saved)) } catch { console.error } }:
\* the value handed to the setter, if any.
ReadStored(item) == IF item.kind = "json" THEN <<item.value>> ELSE <<>>

InitStartup ==
    /\ AnimIdle
    /\ InitPage
    /\ SceneIdle
    /\ PathIdle
    /\ editsLeft = 0
    /\ faultsLeft = 0
    /\ exportsLeft = 0
    /\ \E e \in StoredItems("effects"), a \in StoredItems("animations"),
          p \in StoredItems("presets") :
          storage = [effects |-> e, animations |-> a, presets |-> p]
    /\ storedAtMount = storage
    /\ mountPc = "mounted"
    /\ queued = EmptyMap

\* The effects of the first commit, in their order: the mount effect reads
\* the storage and queues a state update for every value that parses, then
\* the save effects write the state of this render, the defaults.
MountEffects ==
    /\ mountPc = "mounted"
    /\ queued' = [key \in {x \in StorageKeys : ReadStored(storage[x]) # <<>>} |->
                      ReadStored(storage[key])[1]]
    /\ storage' = [key \in StorageKeys |-> Stringified(key, LiveState(key))]
    /\ mountPc' = IF queued' = EmptyMap THEN "settled" ELSE "queued"
    /\ UNCHANGED <<storedAtMount, fontVars, previewPreset, presetLog, renderArgs, animVars, pageVars,
                   sceneVars, previewVars, pathVars>>

\* The render with the queued updates, and its effects: the hook if the
\* animations are new, and the save effect of every state that is new.
MountRerender ==
    /\ mountPc = "queued"
    /\ IF "effects" \in DOMAIN queued THEN SetEffects(queued["effects"])
       ELSE UNCHANGED <<effects, effectsHeap>>
    /\ IF "animations" \in DOMAIN queued
       THEN SetAnimations(queued["animations"]) /\ useAnimationEngine
       ELSE UNCHANGED <<animations, animationsHeap, engineVars>>
    /\ presets' = IF "presets" \in DOMAIN queued THEN queued["presets"] ELSE presets
    /\ storage' = [key \in StorageKeys |->
                       IF key \in DOMAIN queued THEN Stringified(key, queued[key])
                       ELSE storage[key]]
    /\ queued' = EmptyMap
    /\ mountPc' = "settled"
    /\ UNCHANGED <<storedAtMount, fontVars, previewPreset, presetLog, renderArgs, animVars, sceneVars,
                   previewRest, pathVars, loaded, font, exportVars, editsLeft>>

\* fetch('/api/fonts') has settled: with the list of fonts the saved one or
\* the first one is selected, without it none; either way the page is shown.
FontsFetched ==
    /\ mountPc = "settled"
    /\ ~loaded
    /\ loaded' = TRUE
    /\ \/ \E path \in FontPaths :
             /\ fontPath' = path
             /\ FontLoadEffect(path)
       \/ UNCHANGED fontVars
    /\ UNCHANGED <<startupVars, previewPreset, presetLog, renderArgs, animVars, sceneVars, previewVars,
                   pathVars, font, effects, effectsHeap, animations, animationsHeap,
                   presets, exportVars, editsLeft>>

NextStartup == MountEffects \/ MountRerender \/ FontsFetched \/ FontLoadSettles

SpecStartup == InitStartup /\ [][NextStartup]_vars

\* Home after startup with an empty storage, the list of fonts on its way.
InitFont ==
    /\ AnimIdle
    /\ InitPage
    /\ SceneIdle
    /\ PathIdle
    /\ editsLeft = 0
    /\ faultsLeft = 0
    /\ exportsLeft = 0
    /\ storage = [key \in StorageKeys |-> Stringified(key, LiveState(key))]
    /\ storedAtMount = [key \in StorageKeys |-> Absent]
    /\ mountPc = "settled"
    /\ queued = EmptyMap

NextFont == FontsFetched \/ selectFont \/ FontLoadSettles

SpecFont == InitFont /\ [][NextFont]_vars

---------------------------------------------------------------------------
(* Claims about getAnimatedValue                                           *)

Midpoint(config) == RDiv(RAdd(config.min, config.max), Two)

IsC1Config(config) ==
    /\ config.enabled
    /\ config.pingPong
    /\ config.easing = "linear"
    /\ config.speed = One
    /\ RLe(config.min, config.max)

\* C1 as stated: with enabled, pingPong, linear easing and speed 1,
\* getAnimatedValue returns min at t = 0, max at t = 0.25, min at t = 0.5 and
\* max at t = 0.75.
C1_AsStated ==
    (animPc = "done" /\ IsC1Config(animCfg)) =>
        /\ animTime = Zero => animValue = animCfg.min
        /\ animTime = Rat(1, 4) => animValue = animCfg.max
        /\ animTime = Rat(1, 2) => animValue = animCfg.min
        /\ animTime = Rat(3, 4) => animValue = animCfg.max

\* C1 amended: with enabled, pingPong, linear easing and speed 1,
\* getAnimatedValue returns min at t = 0, the midpoint (min + max) / 2 at
\* t = 0.25, max at t = 0.5 and the midpoint again at t = 0.75: one
\* min -> max -> min cycle per second.
C1_PingPongCycle ==
    (animPc = "done" /\ IsC1Config(animCfg)) =>
        /\ animTime = Zero => animValue = animCfg.min
        /\ animTime = Rat(1, 4) => animValue = Midpoint(animCfg)
        /\ animTime = Rat(1, 2) => animValue = animCfg.max
        /\ animTime = Rat(3, 4) => animValue = Midpoint(animCfg)

\* A call at t = 0.5 that returned max, above min.
C1_Witness ==
    /\ animPc = "done"
    /\ IsC1Config(animCfg)
    /\ animTime = Rat(1, 2)
    /\ animValue = animCfg.max
    /\ RLt(animCfg.min, animCfg.max)

\* C2 as stated: for every enabled config with speed <= 0, every easing,
\* pingPong on or off and every elapsed time >= 0, getAnimatedValue returns a
\* number (no failure) that is exactly config.min.
C2_FrozenAtMin ==
    (animPc = "done" /\ animCfg.enabled /\ RLe(animCfg.speed, Zero)) =>
        animValue = animCfg.min

\* C15: with enabled = false getAnimatedValue returns config.min, at every
\* elapsed time and for every speed, easing and pingPong.
C15_DisabledReturnsMin ==
    (animPc = "done" /\ ~animCfg.enabled) => animValue = animCfg.min

\* A call with a disabled configuration of speed 2 and bounce easing, at a
\* time at which the enabled one is away from min, that returned min.
C15_Witness ==
    /\ animPc = "done"
    /\ ~animCfg.enabled
    /\ animCfg.speed = Two
    /\ animCfg.easing = "bounce"
    /\ animTime = Rat(3, 4)
    /\ animValue = animCfg.min
    /\ getAnimatedValue([animCfg EXCEPT !.enabled = TRUE], animTime) # animCfg.min

---------------------------------------------------------------------------
(* Claims about the export                                                 *)

\* The exports to speak of: those in flight and the one that ended last.
RunsSeen ==
    {runs[k] : k \in DOMAIN runs}
        \cup (IF lastRun.outcome = "none" THEN {} ELSE {lastRun.run})

\* Every frame of r, rendered or written, is what the configuration held at
\* the start of r gives at the frame's time.
FramesFromSnapshot(r) ==
    /\ \A k \in DOMAIN r.sampled :
          r.sampled[k].effects =
              applyAnimatedValues(r.startEffects, r.startAnimations,
                                  Rat(r.sampled[k].index * r.fps[2], r.fps[1]))
    /\ \A k \in DOMAIN r.frames :
          r.frames[k].effects =
              applyAnimatedValues(r.startEffects, r.startAnimations,
                                  Rat(r.frames[k].index * r.fps[2], r.fps[1]))

\* C3: every frame of an export is computed from the effect list and the
\* animation map as they were when the export started, whatever edits, preview
\* ticks and preset loads came in between its frames.
C3_FramesFromSnapshot == \A r \in RunsSeen : FramesFromSnapshot(r)

\* An export that has written all its frames, the animated ones differing
\* from the base, while the live effects and animations have both moved on
\* from what the export started with.
C3_Witness ==
    /\ lastRun.outcome = "success"
    /\ Len(lastRun.run.frames) >= 4
    /\ lastRun.run.frames[3].effects # lastRun.run.startEffects
    /\ lastRun.run.effects # effects
    /\ liveEffects # lastRun.run.startEffects
    /\ liveAnimations # lastRun.run.startAnimations

\* C4: at most one exportGif run is in flight, and one is in flight exactly
\* while gifExporting is set, so no export request starts a second one.
C4_OneExportInFlight ==
    /\ Len(runs) <= 1
    /\ gifExporting <=> (runs # <<>>)

\* A second export under way in the dialog after a first one has ended.
C4_Witness ==
    /\ Len(runs) = 1
    /\ gifExporting
    /\ showGifDialog
    /\ lastRun.outcome # "none"
    /\ exportsLeft = 0

\* round(fps * duration), no less than 1, in whole-number arithmetic.
RoundedFrameCount(fps, duration) ==
    LET n == fps[1] * duration[1]
        d == fps[2] * duration[2]
        rounded == (2 * n + d) \div (2 * d)
    IN  IF rounded < 1 THEN 1 ELSE rounded

\* round(1000 / fps) in whole-number arithmetic.
RoundedDelay(fps) == (2000 * fps[2] + fps[1]) \div (2 * fps[1])

\* C5: a successful export has written max(1, round(fps * duration)) frames,
\* each with delay round(1000 / fps) ms: 20 frames of 100 ms for fps 10 over
\* 2 s, one frame for fps 3 over 0.1 s.
C5_FrameCountAndDelay ==
    lastRun.outcome = "success" =>
        LET r == lastRun.run
        IN  /\ Len(r.frames) = RoundedFrameCount(r.fps, r.duration)
            /\ \A k \in DOMAIN r.frames : r.frames[k].delay = Num(RoundedDelay(r.fps))
            /\ (r.fps = Num(10) /\ r.duration = Two) =>
                   /\ Len(r.frames) = 20
                   /\ \A k \in DOMAIN r.frames : r.frames[k].delay = Num(100)
            /\ (r.fps = Num(3) /\ r.duration = Rat(1, 10)) => Len(r.frames) = 1

\* The export of 2 s at 10 fps has ended well with its 20 frames.
C5_Witness ==
    /\ lastRun.outcome = "success"
    /\ lastRun.run.fps = Num(10)
    /\ lastRun.run.duration = Two
    /\ Len(lastRun.run.frames) = 20
    /\ lastRun.run.frames[20].delay = Num(100)

\* The frames of r were rendered at i / fps for i = 0, 1, 2, ... and written
\* in that order, each once, each only after the one before it was rasterized
\* and written.
FramesInOrder(r) ==
    /\ \A k \in DOMAIN r.sampled :
          /\ r.sampled[k].index = k - 1
          /\ RMul(r.sampled[k].time, r.fps) = Num(k - 1)
    /\ \A k \in DOMAIN r.frames :
          /\ r.frames[k].index = k - 1
          /\ r.frames[k].effects = r.sampled[k].effects
    /\ \A j, k \in DOMAIN r.sampled : j < k => RLt(r.sampled[j].time, r.sampled[k].time)
    /\ Len(r.frames) <= Len(r.sampled)
    /\ Len(r.sampled) <= Len(r.frames) + 1
    /\ r.pc = "rasterizing" => Len(r.sampled) = Len(r.frames) + 1
    /\ r.pc \in {"yielding", "done"} => Len(r.sampled) = Len(r.frames)

\* C6: frame i of an export is sampled at i / fps, and the frames reach the
\* encoder in increasing index order, each index once, in the order they were
\* sampled, none before the one before it has been rasterized.
C6_FramesInOrder == \A r \in RunsSeen : FramesInOrder(r)

\* An export in flight rasterizing its fifth frame, four written.
C6_Witness ==
    \E k \in DOMAIN runs :
        /\ runs[k].pc = "rasterizing"
        /\ Len(runs[k].frames) = 4
        /\ Len(runs[k].sampled) = 5
        /\ runs[k].sampled[5].time = Rat(4, 10)

\* The values r handed to onProgress: (i + 1) / totalFrames after frame i,
\* increasing, above 0 and at most 1.
ProgressReported(r) ==
    /\ Len(r.progress) = Len(r.frames)
    /\ \A k \in DOMAIN r.progress :
          /\ RMul(r.progress[k], r.totalFrames) = Num(r.frames[k].index + 1)
          /\ RLt(Zero, r.progress[k])
          /\ RLe(r.progress[k], One)
    /\ \A j, k \in DOMAIN r.progress : j < k => RLt(r.progress[j], r.progress[k])

\* C7: after frame i is written the progress callback gets
\* (i + 1) / totalFrames; the values of one export increase strictly, lie in
\* (0, 1], and the last one of a successful export is 1.  The page shows the
\* value last reported.
C7_Progress ==
    /\ \A r \in RunsSeen : ProgressReported(r)
    /\ lastRun.outcome = "success" =>
           /\ lastRun.run.progress # <<>>
           /\ Last(lastRun.run.progress) = One
    /\ \A k \in DOMAIN runs :
           (Len(runs) = 1 /\ runs[k].progress # <<>>) =>
               gifProgress = Last(runs[k].progress)

\* A successful export of seven or more frames whose last report was 1.
C7_Witness ==
    /\ lastRun.outcome = "success"
    /\ Len(lastRun.run.progress) >= 7
    /\ Last(lastRun.run.progress) = One
    /\ lastRun.run.progress[1] = RDiv(One, lastRun.run.totalFrames)

\* C8: an export in which rendering, rasterization or encoding failed at a
\* frame has stopped at that frame: it is no longer in flight, nothing was
\* sampled after the failing frame and neither it nor a later one was
\* written; one error was thrown and one alert shown, and nothing was
\* downloaded.
C8_FailureStopsExport ==
    /\ \A k \in DOMAIN runs : runs[k].errors = 0
    /\ lastRun.outcome # "none" =>
           LET r == lastRun.run
           IN  /\ (lastRun.outcome = "failed") <=> (r.errors > 0)
               /\ lastRun.outcome = "failed" =>
                      /\ r.errors = 1
                      /\ lastRun.alerts = 1
                      /\ ~lastRun.downloaded
                      /\ r.pc = "failed"
                      /\ \A j \in DOMAIN r.sampled : r.sampled[j].index <= r.failedAt
                      /\ \A j \in DOMAIN r.frames : r.frames[j].index < r.failedAt
                      /\ RLt(Num(Len(r.frames)), r.totalFrames)
               /\ lastRun.outcome = "success" =>
                      /\ lastRun.alerts = 0
                      /\ lastRun.downloaded

\* An export that failed at its third frame with two frames written.
C8_Witness ==
    /\ lastRun.outcome = "failed"
    /\ lastRun.run.failedAt = 2
    /\ Len(lastRun.run.frames) = 2
    /\ Len(lastRun.run.sampled) = 3
    /\ lastRun.alerts = 1
    /\ ~lastRun.downloaded
    /\ runs = <<>>

\* Run r without the note of a cancel request.
WithoutCancelNote(r) == [r EXCEPT !.cancelRequested = FALSE]

\* A step of the Cancel button during an export leaves the exports in flight,
\* the exporting flag, the progress and the dialog as they were.
CancelChangesNothing ==
    (onCancel /\ gifExporting) =>
        /\ Len(runs') = Len(runs)
        /\ \A k \in DOMAIN runs : WithoutCancelNote(runs'[k]) = WithoutCancelNote(runs[k])
        /\ gifExporting'
        /\ UNCHANGED <<showGifDialog, gifProgress, lastRun>>

\* An export leaves the page only by returning with all its frames written
\* or by throwing.
EndsOnlyByItself ==
    Len(runs') < Len(runs) =>
        /\ Len(runs') = Len(runs) - 1
        /\ lastRun'.outcome \in {"success", "failed"}
        /\ lastRun'.outcome = "success" =>
               /\ Num(Len(lastRun'.run.frames)) = lastRun'.run.totalFrames
               /\ FramesInOrder(lastRun'.run)
        /\ lastRun'.outcome = "failed" => lastRun'.run.errors = 1

\* C9: a cancel or close request during an export is advisory only: the step
\* changes nothing of the export, and an export, cancel requested or not, ends
\* only with all its frames written in order or by a failure of its own.
C9_CancelIsAdvisory == [][CancelChangesNothing /\ EndsOnlyByItself]_vars

\* An export that was asked to cancel while in flight and has since ended
\* well with all its frames.
C9_Witness ==
    /\ lastRun.outcome = "success"
    /\ lastRun.run.cancelRequested
    /\ Len(lastRun.run.frames) >= 7
    /\ Num(Len(lastRun.run.frames)) = lastRun.run.totalFrames
    /\ lastRun.downloaded

---------------------------------------------------------------------------
(* Claims about applyEffects                                               *)

\* The list without its disabled effects.
RECURSIVE WithoutDisabled(_)
WithoutDisabled(effectList) ==
    IF effectList = <<>> THEN <<>>
    ELSE IF Head(effectList).enabled
    THEN <<Head(effectList)>> \o WithoutDisabled(Tail(effectList))
    ELSE WithoutDisabled(Tail(effectList))

\* The first n effects of the list at work one after the other, each on the
\* scene the one before it left.
RECURSIVE AppliedInOrder(_, _, _)
AppliedInOrder(svg, effectList, n) ==
    IF n = 0 THEN svg
    ELSE ApplyEffect(AppliedInOrder(svg, effectList, n - 1), effectList[n])

\* The list back to front.
Reversed(effectList) ==
    [k \in 1..Len(effectList) |-> effectList[Len(effectList) + 1 - k]]

\* C10: at every turn of its loop and at its return applyEffects has applied
\* the enabled effects of its list, each once and in list order, each to the
\* scene the one before it left, and nothing else: what it returns is what
\* the list without its disabled effects gives, and the scene it was handed
\* if no effect is enabled.
C10_EnabledInListOrder ==
    fxPc \in {"loop", "done"} =>
        LET enabled == WithoutDisabled(fxEffects)
            n == Len(fxApplied)
        IN  /\ n <= Len(enabled)
            /\ fxApplied = [k \in 1..n |-> enabled[k].id]
            /\ scene = AppliedInOrder(sceneAtCall, enabled, n)
            /\ fxPc = "done" => n = Len(enabled)
            /\ (fxPc = "done" /\ enabled = <<>>) => scene = sceneAtCall

\* applyEffects has returned from a list with a disabled effect between two
\* enabled ones, whose order and whose disabled effect both matter to the
\* scene.
C10_Witness ==
    /\ fxPc = "done"
    /\ Len(fxEffects) = 3
    /\ fxEffects[1].enabled
    /\ ~fxEffects[2].enabled
    /\ fxEffects[3].enabled
    /\ fxApplied = <<fxEffects[1].id, fxEffects[3].id>>
    /\ scene # sceneAtCall
    /\ scene # AppliedInOrder(sceneAtCall, Reversed(WithoutDisabled(fxEffects)), 2)
    /\ scene # AppliedInOrder(sceneAtCall, fxEffects, 3)

---------------------------------------------------------------------------
(* Claims about animation entries and the live preview                     *)

\* The parameters of the effects in after are those of before, key by key,
\* and a value differs only where animationMap holds an enabled entry under
\* the id of the effect and the name of the parameter.
OnlyMatchingEntriesWrite(before, after, animationMap) ==
    /\ Len(after) = Len(before)
    /\ \A k \in DOMAIN before :
          /\ after[k].id = before[k].id
          /\ DOMAIN after[k].parameters = DOMAIN before[k].parameters
          /\ \A p \in DOMAIN before[k].parameters :
                after[k].parameters[p] # before[k].parameters[p] =>
                    /\ before[k].id \in DOMAIN animationMap
                    /\ p \in DOMAIN animationMap[before[k].id]
                    /\ animationMap[before[k].id][p].enabled

\* The frames of the exports seen were resolved by matching entries only.
ExportFramesInert ==
    \A r \in RunsSeen : \A k \in DOMAIN r.sampled :
        OnlyMatchingEntriesWrite(r.startEffects, r.sampled[k].effects,
                                 r.startAnimations)

\* C11: an animation entry under a parameter name its effect does not have,
\* or under the id of no effect, adds no key to and changes no key of any
\* parameter record: not in the effects resolved for a frame of an export,
\* and not in the effect list a live preview frame leaves.
C11_StaleEntriesInert ==
    /\ []ExportFramesInert
    /\ [][animate => OnlyMatchingEntriesWrite(liveEffects, liveEffects',
                                              liveAnimations)]_vars

\* While no animation is enabled no frame is requested, and a frame runs only
\* while one is.
IdleWhenNothingEnabled ==
    /\ [](animationFrameRef <=> hasActiveAnimations(liveAnimations))
    /\ [](isRunning <=> hasActiveAnimations(liveAnimations))
    /\ [][AnimationFrame => hasActiveAnimations(liveAnimations)]_vars

\* A step from idle to active sets the start time to the clock, and a frame
\* sees the time elapsed since the start time, which is not before the
\* activation.
AnchoredAtActivation ==
    /\ [][(~animationFrameRef /\ animationFrameRef') =>
              (startTimeRef' = now' /\ activatedAt' = now')]_vars
    /\ [][AnimationFrame =>
              /\ lastElapsed' = RSub(now, startTimeRef)
              /\ RLe(Zero, lastElapsed')
              /\ RLe(lastElapsed', RSub(now, activatedAt))]_vars
    /\ [](RLe(activatedAt, startTimeRef) /\ RLe(startTimeRef, now))

\* C12: once no animation configuration is enabled the live preview has no
\* frame requested and no frame updates an effect; and whenever it goes from
\* idle to active the start time is set to the clock, so that the frames
\* after it see the time elapsed since the activation at most, never the
\* time since an earlier run.
C12_IdleAndReanchored == IdleWhenNothingEnabled /\ AnchoredAtActivation

\* The preview was active from the start, went idle and was activated again
\* later; the last frame ran after that and saw the time since the second
\* activation, less than the time since the first.
C12_Witness ==
    /\ presets # <<>>
    /\ RLt(Zero, activatedAt)
    /\ animationFrameRef
    /\ RLt(activatedAt, lastTickAt)
    /\ lastElapsed = RSub(lastTickAt, activatedAt)
    /\ RLt(lastElapsed, lastTickAt)

---------------------------------------------------------------------------
(* Claims about the animation controls                                     *)

\* The configurations the animations object holds, with the effect and the
\* parameter each belongs to.
ConfigsHeld ==
    {<<k, p>> \in (DOMAIN liveEffects)
                      \X UNION {DOMAIN PARAMETER_RANGES(type) : type \in EffectType} :
        /\ liveEffects[k].id \in DOMAIN liveAnimations
        /\ p \in DOMAIN liveAnimations[liveEffects[k].id]
        /\ p \in DOMAIN PARAMETER_RANGES(liveEffects[k].type)}

ConfigOf(kp) == liveAnimations[liveEffects[kp[1]].id][kp[2]]

RangeOf(kp) == PARAMETER_RANGES(liveEffects[kp[1]].type)[kp[2]]

\* Every configuration held has speed > 0 while it is enabled.
SpeedPositive ==
    \A kp \in ConfigsHeld : ConfigOf(kp).enabled => RLt(Zero, ConfigOf(kp).speed)

\* C13: after any sequence of enable / disable, min, max, speed, easing and
\* ping-pong edits in the animation controls every configuration has
\* min <= max, and speed > 0 while it is enabled.
C13_MinMaxSpeed ==
    /\ \A kp \in ConfigsHeld : RLe(ConfigOf(kp).min, ConfigOf(kp).max)
    /\ SpeedPositive

\* C14: the min and max of every configuration the controls have made for a
\* parameter, the one made by enabling the animation included, lie in the
\* range declared for the parameter.
C14_WithinDeclaredRange ==
    \A kp \in ConfigsHeld :
        /\ RLe(RangeOf(kp).min, ConfigOf(kp).min)
        /\ RLe(ConfigOf(kp).min, RangeOf(kp).max)
        /\ RLe(RangeOf(kp).min, ConfigOf(kp).max)
        /\ RLe(ConfigOf(kp).max, RangeOf(kp).max)

---------------------------------------------------------------------------
(* Claims about the effects                                                *)

\* The one effect of the call, once applyEffects has returned.
EffectDone(type) ==
    fxPc = "done" /\ Len(fxEffects) = 1 /\ fxEffects[1].type = type

EffectiveOpacity(group) == IF group.opacity = <<>> THEN One ELSE group.opacity[1]

EffectiveTranslate(group) ==
    IF group.transform.translate = <<>> THEN <<Zero, Zero>>
    ELSE group.transform.translate

EffectiveRotation(group) ==
    IF group.transform.rotate = <<>> THEN Zero ELSE group.transform.rotate[1]

\* after holds, for every group of before and count k, k - 1 copies and then
\* the group itself; copy i is drawn with opacity (1 - opacityDecay)^i, moved
\* by (offsetX * i, offsetY * i) and turned by rotation * i.
MultiplyCopies(before, after, p) ==
    LET k == p.count[1]
    IN  /\ Len(after) = k * Len(before)
        /\ k = 1 => after = before
        /\ \A j \in DOMAIN before :
               /\ after[j * k] = before[j]
               /\ \A i \in 1..(k - 1) :
                      LET copy == after[(j - 1) * k + i]
                      IN  /\ copy.char = before[j].char
                          /\ copy.paths = before[j].paths
                          /\ EffectiveOpacity(copy) = Pow(RSub(One, p.opacityDecay), i)
                          /\ EffectiveTranslate(copy)
                                 = <<RMul(p.offsetX, Num(i)), RMul(p.offsetY, Num(i))>>
                          /\ EffectiveRotation(copy) = RMul(p.rotation, Num(i))

\* What holds of Multiply: the copies are as stated where the groups it
\* copies carry no opacity and no transform of their own.
MultiplyOnPlainGroups ==
    (EffectDone("multiply")
        /\ \A j \in DOMAIN sceneAtCall :
               sceneAtCall[j].opacity = <<>> /\ sceneAtCall[j].transform = NoTransform)
        => MultiplyCopies(sceneAtCall, scene, fxEffects[1].parameters)

\* C16: Multiply with count k puts k - 1 copies of each character behind the
\* original; copy i has opacity (1 - opacityDecay)^i, is moved by
\* (offsetX * i, offsetY * i) and turned by rotation * i; count 1 changes
\* nothing.
C16_MultiplyCopies ==
    EffectDone("multiply") => MultiplyCopies(sceneAtCall, scene, fxEffects[1].parameters)

\* The points the commands of a path end at, in drawing order.
RECURSIVE EndPointsFrom(_, _, _, _)
EndPointsFrom(commands, k, current, start) ==
    IF k > Len(commands) THEN <<>>
    ELSE
      LET cmd == commands[k]
          type == toUpperCase(cmd.type)
          n == Len(cmd.values)
          end == IF IsLowerCase(cmd.type)
                 THEN <<RAdd(current[1], cmd.values[n - 1]),
                        RAdd(current[2], cmd.values[n])>>
                 ELSE <<cmd.values[n - 1], cmd.values[n]>>
      IN  CASE type = "M" -> <<end>> \o EndPointsFrom(commands, k + 1, end, end)
            [] type \in {"L", "Q", "C"} ->
                  <<end>> \o EndPointsFrom(commands, k + 1, end, start)
            [] type = "Z" -> EndPointsFrom(commands, k + 1, start, start)
            [] OTHER -> EndPointsFrom(commands, k + 1, current, start)

Vertices(d) == EndPointsFrom(parsePath(d), 1, <<Zero, Zero>>, <<Zero, Zero>>)

\* Where the end points of the commands are found among the vertices of the
\* path Distortion writes: a move is one vertex, a line or curve the last of
\* its 8 parts, a close none.
RECURSIVE VertexPlaces(_, _, _)
VertexPlaces(commands, k, drawn) ==
    IF k > Len(commands) THEN <<>>
    ELSE LET type == toUpperCase(commands[k].type)
             parts == CASE type = "M" -> 1
                        [] type \in {"L", "Q", "C"} -> 8
                        [] OTHER -> 0
         IN  (IF parts = 0 THEN <<>> ELSE <<drawn + parts>>)
                 \o VertexPlaces(commands, k + 1, drawn + parts)

\* Every vertex of the path is where it was, and the vertices put between
\* them lie on the outline as it was.
VerticesKept(before, after) ==
    LET places == VertexPlaces(parsePath(before), 1, 0)
    IN  /\ Len(Vertices(after)) = (IF places = <<>> THEN 0 ELSE Last(places))
        /\ [i \in DOMAIN places |-> Vertices(after)[places[i]]] = Vertices(before)
        /\ Vertices(after)
               = Vertices(serializePath(subdividePath(parsePath(before), Num(8))))

\* C18: Distortion with amplitude 0 leaves every vertex of every outline
\* where it was, whatever the wave type, frequency and phase.
C18_ZeroAmplitudeIdentity ==
    (EffectDone("distortion") /\ fxEffects[1].parameters.amplitude = Zero)
        => /\ Len(scene) = Len(sceneAtCall)
           /\ \A k \in DOMAIN scene :
                  /\ Len(scene[k].paths) = Len(sceneAtCall[k].paths)
                  /\ \A j \in DOMAIN scene[k].paths :
                         VerticesKept(sceneAtCall[k].paths[j].d, scene[k].paths[j].d)

C18_Witness ==
    /\ EffectDone("distortion")
    /\ fxEffects[1].parameters.amplitude = Zero
    /\ fxEffects[1].parameters.waveType = "saw"
    /\ fxEffects[1].parameters.phase = Num(180)
    /\ sceneAtCall = RenderLine(<<"c">>, FALSE)
    /\ scene # sceneAtCall
    /\ Len(Vertices(scene[1].paths[1].d)) = 17

\* C19: Color with (h, s, l) sets every fill and every stroke that is set
\* and not "none" to hsl(h, s%, l%) and leaves the others as they are; red
\* with (120, 100, 50) becomes hsl(120, 100%, 50%), none stays none.
C19_ColorEffect ==
    EffectDone("color")
        => LET p == fxEffects[1].parameters
               color == Hsl(p.hue, p.saturation, p.lightness)
               Expected(paint) ==
                   IF paint = Paint("absent") \/ paint = Paint("none") THEN paint
                   ELSE color
           IN  /\ Len(scene) = Len(sceneAtCall)
               /\ \A k \in DOMAIN scene :
                      /\ Len(scene[k].paths) = Len(sceneAtCall[k].paths)
                      /\ [scene[k] EXCEPT !.paths = <<>>]
                             = [sceneAtCall[k] EXCEPT !.paths = <<>>]
                      /\ \A j \in DOMAIN scene[k].paths :
                             LET before == sceneAtCall[k].paths[j]
                                 after == scene[k].paths[j]
                             IN  /\ after.fill = Expected(before.fill)
                                 /\ after.stroke = Expected(before.stroke)
                                 /\ [after EXCEPT !.fill = before.fill,
                                                  !.stroke = before.stroke] = before
                                 /\ (before.fill = Paint("red")
                                        /\ <<p.hue, p.saturation, p.lightness>>
                                               = <<Num(120), Num(100), Num(50)>>)
                                        => after.fill
                                               = [kind |-> "hsl",
                                                  hsl |-> <<Num(120), Num(100), Num(50)>>]

C19_Witness ==
    /\ EffectDone("color")
    /\ fxEffects[1].parameters.hue = Num(120)
    /\ sceneAtCall[1].paths[1].fill = Paint("red")
    /\ sceneAtCall[1].paths[1].stroke = Paint("none")
    /\ scene[1].paths[1].fill = Hsl(Num(120), Num(100), Num(50))
    /\ scene[1].paths[1].stroke = Paint("none")

---------------------------------------------------------------------------
(* Claims about the path functions                                         *)

\* result holds, from place at on, what is stated for the commands from
\* k on: a move made absolute, n lines for a line or curve, the i-th at
\* t = i/n of it and the last at its end point, a close for a close; any
\* other command as it is.
RECURSIVE SubdividedAsStated(_, _, _, _, _, _, _)
SubdividedAsStated(commands, result, k, at, current, start, n) ==
    IF k > Len(commands) THEN Len(result) = at
    ELSE
      LET cmd == commands[k]
          type == toUpperCase(cmd.type)
          v == cmd.values
          P(j) == IF IsLowerCase(cmd.type)
                  THEN <<RAdd(current[1], v[j]), RAdd(current[2], v[j + 1])>>
                  ELSE <<v[j], v[j + 1]>>
          end == P(Len(v) - 1)
          Sample(i) ==
              LET t == Rat(i, n)
              IN  CASE type = "L" ->
                          getPointOnLine(current[1], current[2], end[1], end[2], t)
                    [] type = "Q" ->
                          getPointOnQuadraticBezier(current[1], current[2], P(1)[1],
                                                    P(1)[2], end[1], end[2], t)
                    [] type = "C" ->
                          getPointOnCubicBezier(current[1], current[2], P(1)[1], P(1)[2],
                                                P(3)[1], P(3)[2], end[1], end[2], t)
      IN  CASE type = "M" ->
                  /\ Len(result) > at
                  /\ result[at + 1] = PathCommand("M", end)
                  /\ SubdividedAsStated(commands, result, k + 1, at + 1, end, end, n)
            [] type \in {"L", "Q", "C"} ->
                  /\ Len(result) >= at + n
                  /\ \A i \in 1..n : result[at + i] = PathCommand("L", Sample(i))
                  /\ result[at + n].values = end
                  /\ SubdividedAsStated(commands, result, k + 1, at + n, end, start, n)
            [] type = "Z" ->
                  /\ Len(result) > at
                  /\ result[at + 1].type = "Z"
                  /\ SubdividedAsStated(commands, result, k + 1, at + 1, start, start, n)
            [] OTHER ->
                  /\ Len(result) > at
                  /\ result[at + 1] = cmd
                  /\ SubdividedAsStated(commands, result, k + 1, at + 1, current, start, n)

\* "M0 0 L10 0"
ScenarioPath ==
    <<Letter("M"), Number(Zero), Number(Zero), Letter("L"), Number(Num(10)), Number(Zero)>>

\* C17: subdividePath(commands, N) makes of every line, quadratic and cubic
\* command N lines at t = i/N, i = 1..N, the last one ending where the
\* command ends; a move is made absolute, a close stays; "M0 0 L10 0" with
\* N = 2 gives M(0,0), L(5,0), L(10,0).
C17_SubdivideIntoN ==
    pathPc = "subdivided"
        => /\ SubdividedAsStated(pathCommands, pathSubdivided, 1, 0, <<Zero, Zero>>,
                                 <<Zero, Zero>>, pathN[1])
           /\ (pathText = ScenarioPath /\ pathN = Two)
                  => pathSubdivided = <<PathCommand("M", <<Zero, Zero>>),
                                        PathCommand("L", <<Num(5), Zero>>),
                                        PathCommand("L", <<Num(10), Zero>>)>>

C17_Witness ==
    /\ pathPc = "subdivided"
    /\ pathN = Num(3)
    /\ Len(pathCommands) = 3
    /\ pathCommands[2].type = "q"
    /\ pathCommands[3].type = "C"
    /\ Len(pathSubdivided) = 7
    /\ \A k \in 2..7 : pathSubdivided[k].type = "L"

\* The two parses have the same letters and as many operands each, every
\* operand within 0.01 of its first reading.
SameWithinTolerance(first, second) ==
    /\ Len(second) = Len(first)
    /\ \A k \in DOMAIN first :
           /\ second[k].type = first[k].type
           /\ Len(second[k].values) = Len(first[k].values)
           /\ \A j \in DOMAIN first[k].values :
                  LET a == first[k].values[j]
                      b == second[k].values[j]
                  IN  \/ a = b
                      \/ /\ IsFinite(a)
                         /\ IsFinite(b)
                         /\ RLe(RSub(a, b), Rat(1, 100))
                         /\ RLe(RSub(b, a), Rat(1, 100))

\* What holds of the round trip: it is as stated for the texts whose
\* numbers are all finite.
RoundTripOfFinite ==
    (pathPc = "reparsed"
        /\ \A k \in DOMAIN pathCommands :
               \A j \in DOMAIN pathCommands[k].values : IsFinite(pathCommands[k].values[j]))
        => SameWithinTolerance(pathCommands, pathReparsed)

\* C20: parsePath, serializePath and parsePath again give, for every valid
\* path text, the letters and operand counts of the first parse and every
\* operand within 0.01 of it.
C20_RoundTrip ==
    pathPc = "reparsed" => SameWithinTolerance(pathCommands, pathReparsed)

---------------------------------------------------------------------------
(* Claims about startup and the font                                       *)

\* The state of Home at construction, under a key of the storage.
DefaultState(key) ==
    CASE key = "effects" -> <<>>
      [] key = "animations" -> EmptyMap
      [] key = "presets" -> <<>>

\* C21: once startup has settled, each of effects, animations and presets
\* is the stored value if there was one that parses and the default if there
\* was none or it does not parse, and the storage holds the live state;
\* startup settles whatever the storage held.
C21_LoadOrDefault ==
    mountPc = "settled"
        => \A key \in StorageKeys :
               /\ storedAtMount[key].kind = "json"
                      => LiveState(key) = storedAtMount[key].value
               /\ storedAtMount[key].kind # "json" => LiveState(key) = DefaultState(key)
               /\ storage[key] = Stringified(key, LiveState(key))
               /\ storedAtMount[key].kind = "json" => storage[key] = storedAtMount[key]

C21_Witness ==
    /\ mountPc = "settled"
    /\ loaded
    /\ storedAtMount["effects"].kind = "json"
    /\ storedAtMount["animations"] = Garbage
    /\ storedAtMount["presets"] = Absent
    /\ Len(liveEffects) = 2
    /\ liveAnimations = EmptyMap
    /\ storage["animations"] = JsonText(EmptyMap)

FailedLoads == {k \in DOMAIN fontLoads : fontLoads[k].status = "failed"}

\* The load that settles in this step, if one does.
SettlingLoads == {k \in PendingLoads : fontLoads'[k].status # "pending"}

C28_FontOfSelectedPath ==
    PendingLoads = {} /\ fontPath # "null" => font = fontPath \/ fontError # ""

\* Two selections in a row whose loads settle in the other order: the font
\* of the path selected first is held and drawn, with no error.
C28_StaleFont ==
    /\ Len(fontLoads) = 2
    /\ PendingLoads = {}
    /\ fontLoads[2].path = fontPath
    /\ fontLoads[2].status = "loaded"
    /\ fontError = ""
    /\ font = fontLoads[1].path
    /\ font # fontPath
    /\ rendered = font

---------------------------------------------------------------------------
(* Claims about the yields and the end of an export                        *)

\* r has yielded after each written frame i with i mod 3 = 0 and after no
\* other, each time with the progress of frame i reported and frame i + 1
\* not yet sampled, so no more than 3 frames are written from one yield to
\* the next.
YieldSchedule(r) ==
    /\ Len(r.yields) = (Len(r.frames) + 2) \div 3
    /\ \A k \in DOMAIN r.yields :
          /\ r.yields[k].after = 3 * (k - 1)
          /\ r.yields[k].reported = r.yields[k].after + 1
          /\ r.yields[k].sampled = r.yields[k].after + 1
    /\ r.pc = "yielding" => Last(r.yields).after = r.i /\ Len(r.sampled) = r.i + 1
    /\ \A k \in DOMAIN r.frames :
          \E j \in DOMAIN r.yields :
              r.yields[j].after <= r.frames[k].index
                  /\ r.frames[k].index < r.yields[j].after + 3

\* The schedule, and a yield in every export that has ended.
C23_AsStated ==
    /\ \A r \in RunsSeen : YieldSchedule(r)
    /\ lastRun.outcome # "none" => Len(lastRun.run.yields) >= 1

\* C23: exportGif yields after frame i whenever i mod 3 = 0, after the
\* progress report of that frame and before the next frame is sampled, at most
\* 3 frames from one yield to the next; every export that has written a
\* frame has yielded, and so has every export that ended well.
C23_YieldEveryThirdFrame ==
    /\ \A r \in RunsSeen :
          /\ YieldSchedule(r)
          /\ r.frames # <<>> => Len(r.yields) >= 1
    /\ lastRun.outcome = "success" => Len(lastRun.run.yields) >= 1

\* An export in its third yield, after frame 6, seven frames written.
C23_Witness ==
    \E k \in DOMAIN runs :
        /\ runs[k].pc = "yielding"
        /\ runs[k].i = 6
        /\ Len(runs[k].yields) = 3
        /\ Len(runs[k].frames) = 7

\* An exportGif call ends in this step.
RunEnds == Len(runs') < Len(runs) \/ lastRun' # lastRun

\* C30: when an export ends, well or not, gifExporting is false, the
\* progress is 0 and the offscreen container is out of the document, so the
\* Export button is there whenever the dialog is open; the end of the export
\* closes the dialog if it ended well and leaves it as it is if not.
C30_CleanEnd ==
    /\ [](runs = <<>> => ~gifExporting /\ gifProgress = Zero)
    /\ [][RunEnds =>
            /\ runs' = <<>>
            /\ ~gifExporting'
            /\ gifProgress' = Zero
            /\ ~lastRun'.run.container
            /\ ExportButtonShown' <=> showGifDialog'
            /\ lastRun'.outcome = "success" => ~showGifDialog'
            /\ lastRun'.outcome = "failed" => showGifDialog' = showGifDialog]_vars

\* An export that has thrown after its progress had been shown, the dialog
\* still open and ready for the next export.
C30_Witness ==
    /\ lastRun.outcome = "failed"
    /\ Len(lastRun.run.progress) >= 2
    /\ ~lastRun.run.container
    /\ showGifDialog
    /\ ~gifExporting
    /\ gifProgress = Zero
    /\ exportsLeft > 0

\* The animation that drives parameter p of effect in animationMap: an
\* enabled entry under the id of the effect and the name of the parameter.
DrivenBy(animationMap, effect, p) ==
    IF /\ effect.id \in DOMAIN animationMap
       /\ p \in DOMAIN animationMap[effect.id]
       /\ animationMap[effect.id][p].enabled
    THEN <<animationMap[effect.id][p]>>
    ELSE <<>>

\* frame is base with the driven parameters at their animated value at time
\* and nothing else changed.
ResolvedFrom(frame, base, animationMap, time) ==
    /\ Len(frame) = Len(base)
    /\ \A k \in DOMAIN base :
          /\ frame[k].id = base[k].id
          /\ frame[k].type = base[k].type
          /\ frame[k].enabled = base[k].enabled
          /\ DOMAIN frame[k].parameters = DOMAIN base[k].parameters
          /\ \A p \in DOMAIN base[k].parameters :
                frame[k].parameters[p] =
                    IF DrivenBy(animationMap, base[k], p) = <<>>
                    THEN base[k].parameters[p]
                    ELSE getAnimatedValue(DrivenBy(animationMap, base[k], p)[1], time)

\* C24: every frame of an export is the base list with the same length,
\* order, ids, types and enabled flags, in which the parameters with an
\* enabled animation of their name hold getAnimatedValue(config, time) and
\* all others their base value, and the list and the map the export was
\* handed hold after every frame what they held at its start.
C24_FrameLeavesBase ==
    /\ \A r \in RunsSeen :
          \A k \in DOMAIN r.sampled :
              ResolvedFrom(r.sampled[k].effects, r.startEffects, r.startAnimations,
                           r.sampled[k].time)
    /\ \A k \in DOMAIN runs :
          /\ effectsHeap[runs[k].effects] = runs[k].startEffects
          /\ animationsHeap[runs[k].animations] = runs[k].startAnimations

\* An export three frames in, the third unlike the base, one effect of the
\* base with an animation switched off, the list it was handed as it was.
C24_Witness ==
    \E k \in DOMAIN runs :
        LET r == runs[k]
        IN  /\ Len(r.sampled) >= 3
            /\ r.sampled[3].effects # r.startEffects
            /\ \E id \in DOMAIN r.startAnimations :
                  \E p \in DOMAIN r.startAnimations[id] :
                      /\ ~r.startAnimations[id][p].enabled
                      /\ \E j \in DOMAIN r.startEffects : r.startEffects[j].id = id
            /\ effectsHeap[r.effects] = r.startEffects

---------------------------------------------------------------------------
(* Claims about renderSVGFrame                                             *)

\* C25: after every render the svg element holds exactly what the same
\* render into an empty svg element gives, whatever the renders before it
\* left there: no copy, stroke or distorted path of an earlier render stays.
C25_RenderReplacesScene ==
    renderArgs # <<>> =>
        scene = renderSVGFrame(<<>>, renderArgs.text, renderArgs.wireframeMode,
                               renderArgs.effects)

\* A render with Multiply alone into an svg element that held the copies of
\* a Multiply with outlined paths: one copy per character, no outline left.
C25_Witness ==
    /\ renderArgs # <<>>
    /\ renderArgs.effects = <<SceneEffect("multiply")>>
    /\ \E k \in DOMAIN sceneAtCall :
          /\ sceneAtCall[k].duplicate
          /\ \E j \in DOMAIN sceneAtCall[k].paths : sceneAtCall[k].paths[j].outline
    /\ Len(scene) = 2 * Len(renderArgs.text)
    /\ \A k \in DOMAIN scene : \A j \in DOMAIN scene[k].paths : ~scene[k].paths[j].outline

---------------------------------------------------------------------------
(* Claims about what reaches the effects                                   *)

WholeAtLeastOne(q) == q[2] = 1 /\ q[1] >= 1

\* The count of every enabled Multiply and the subdivisions of every enabled
\* Subdivide in effectList are integers >= 1.
WholeCounts(effectList) ==
    \A k \in DOMAIN effectList :
        LET effect == effectList[k]
        IN  /\ (effect.enabled /\ effect.type = "multiply")
                   => WholeAtLeastOne(effect.parameters.count)
            /\ (effect.enabled /\ effect.type = "subdivide")
                   => WholeAtLeastOne(effect.parameters.subdivisions)

\* C26: every count that reaches Multiply and every subdivisions that
\* reaches Subdivide in a frame of an export is an integer >= 1.
C26_WholeCounts ==
    \A r \in RunsSeen : \A k \in DOMAIN r.sampled : WholeCounts(r.sampled[k].effects)

\* The second frame of an export at 10 fps, its Multiply handed 1.4 copies.
C26_FractionalCount ==
    \E j \in DOMAIN runs :
        /\ Len(runs[j].sampled) >= 2
        /\ Len(runs[j].sampled[2].effects) >= 1
        /\ runs[j].sampled[2].effects[1].type = "multiply"
        /\ runs[j].sampled[2].effects[1].parameters.count = Rat(7, 5)
        /\ CloneSteps(Rat(7, 5)) = 1

---------------------------------------------------------------------------
(* Claims about deleted effects and presets                                *)

\* No effect of effectList has an enabled animation in animationMap.
NoEffectAnimated(effectList, animationMap) ==
    \A k \in DOMAIN effectList :
        effectList[k].id \in DOMAIN animationMap
            => \A p \in DOMAIN animationMap[effectList[k].id] :
                   ~animationMap[effectList[k].id][p].enabled

\* deleteEffect has left no effect with an enabled animation.
LastAnimatedDeleted ==
    /\ Len(liveEffects') = Len(liveEffects) - 1
    /\ animations' = animations
    /\ NoEffectAnimated(liveEffects', liveAnimations')

\* C27: when deleteEffect leaves no effect with an enabled animation, the
\* preview loop is idle: it is not running and has no frame requested, so no
\* frame comes to replace the effect list.
C27_DeletedDrivesNothing ==
    [][LastAnimatedDeleted => ~isRunning' /\ ~animationFrameRef']_vars

\* The animated effect deleted, its animation of count still in the map and
\* the preview loop running with a frame requested.
C27_OrphanRuns ==
    /\ loaded
    /\ \A k \in DOMAIN liveEffects : liveEffects[k].id # "e1"
    /\ "e1" \in DOMAIN liveAnimations
    /\ NoEffectAnimated(liveEffects, liveAnimations)
    /\ isRunning
    /\ animationFrameRef

\* The presets saved so far that are still as the live state was when they
\* were saved.
SavedAsLive ==
    \A p \in DOMAIN presets :
        presets[p].id \in DOMAIN presetLog.saved
            => /\ presets[p].effects = presetLog.saved[presets[p].id].effects
               /\ presets[p].animations = presetLog.saved[presets[p].id].animations

\* C29: a saved preset holds what was live when it was saved, whatever
\* edits, frames of the preview, previews and loads come after; no step
\* changes a preset there is; a load of a saved preset makes the live effects
\* and animations what they were at the save; and a step that only changes
\* the preset previewed leaves the live effects and animations alone.
C29_PresetIsACopy ==
    /\ []SavedAsLive
    /\ [][/\ \A p \in DOMAIN presets :
               p \in DOMAIN presets' /\ presets'[p] = presets[p]
          /\ (Len(presetLog'.loaded) > Len(presetLog.loaded)
                 /\ Last(presetLog'.loaded) \in DOMAIN presetLog.saved)
                => /\ liveEffects' = presetLog.saved[Last(presetLog'.loaded)].effects
                   /\ liveAnimations' = presetLog.saved[Last(presetLog'.loaded)].animations
          /\ (previewPreset' # previewPreset /\ presetLog' = presetLog)
                => /\ liveEffects' = liveEffects
                   /\ liveAnimations' = liveAnimations
                   /\ effects' = effects
                   /\ animations' = animations]_vars

\* A preset saved, one more edit or load after the save, and then the saved
\* preset loaded: the live effects and animations are those of the save.
C29_Witness ==
    /\ Len(presets) = 2
    /\ presets[2].id \in DOMAIN presetLog.saved
    /\ presetLog.loaded = <<presets[2].id>>
    /\ previewPreset = <<>>
    /\ Len(liveEffects) = 2
    /\ liveEffects = presetLog.saved[presets[2].id].effects
    /\ liveAnimations = presetLog.saved[presets[2].id].animations
    /\ editsLeft = 0

====
